---- MODULE Spec2Model ----
(***************************************************************************)
(* Tamriel Auction House desktop client: the reconciliation engine         *)
(* (SyncEngine in desktop-client/client.py) between the addon's            *)
(* SavedVariables store and the remote auction service.                    *)
(*                                                                         *)
(* The store (SavedVariables file) is written by the addon only; the       *)
(* engine reads it, talks to the transport and writes the incoming         *)
(* artifact (AH_IncomingData.lua).  SyncEngine.run calls push_outgoing,   *)
(* pull_incoming and check_notifications one after the other, so each is   *)
(* one atomic action of the engine specifications; the GUI's sync threads  *)
(* (desktop-client/gui.py) are modelled call by call in GuiSpec.           *)
(***************************************************************************)
EXTENDS Integers, Sequences, FiniteSets, TLC

---------------------------------------------------------------------------
(* Bounds of the model *)

\* the addon queues at most this many actions (queue slots 1..MaxSlot)
MaxSlot == 1
\* cap on the sum of the engine's pushes, pulls and errors counters
MaxOps == 3
\* cap on the number of sale alerts waiting for the GUI
MaxAlerts == 1
\* the GUI: sync threads started, SyncEngine objects constructed, account
\* switches (or add-account / remove-account restarts) made by the user
MaxThreads == 2
MaxEngines == 2
MaxSwitches == 1
\* the game rewrites the SavedVariables file at most this many times
MaxWrites == 2
\* the slots of the explicit queue in the specification of long queues
MaxQueue == 10
\* the tables within tables that the interpreter's recursion limit lets the
\* decoder descend into (some hundreds in CPython, scaled down)
RecursionLimit == 3

\* listing ids used by the addon and the service
ListingIds == {"L1", "L2"}
\* iteration order of the myListings table (the order of the file)
ListingOrder == <<"L1", "L2">>
\* declared states of a local listing; "none": the id is not in myListings,
\* "sold" stands for every state other than listed / cancelled
ListingStates == {"none", "listed", "cancelled", "sold"}
\* last_sync_time before the first pull (Python's None)
NoCursor == 0

ItemName(l) == IF l = "L1" THEN "Sword" ELSE "Shield"

\* no credential (config["api_key"] missing or ""), and the credential the
\* service gives to the account a
NoKey == 0
KeyOf(a) == a + 1

\* the content of .tah_key_backup: "json.dumps({"api_key": api_key,
\* "account_name": ...})" (gui.py 98-101)
KeyBackup(key, account) == [api_key |-> key, account_name |-> account]

\* _last_hash before the first read, and the file before any read
NoHash == [content |-> <<>>, crlf |-> FALSE]
NoFile == [content |-> <<>>, crlf |-> FALSE, mtime |-> 0]

\* no _auto_start has run yet
NoBoot == [outcome |-> "none", held |-> FALSE, called |-> FALSE]

---------------------------------------------------------------------------
(* The store: SavedVariables file content, as SavedVarsManager.read gives it *)

VARIABLES
    myListings,          \* [ListingIds -> ListingStates]: data["myListings"][id]["state"]
    queue,               \* sequence of entries: data["outgoing"]["ah_actions"], keys 1..Len
    \* SyncEngine fields (client.py 477-490)
    initial_sync_done,   \* _initial_sync_done
    pushed_action_ids,   \* _pushed_action_ids: the seen-set of action identities
    pending_action_ids,  \* _pending_action_ids
    synced_listing_ids,  \* _synced_listing_ids: the confirmed-remote set
    cached_listings,     \* _cached_listings: the mirror, id -> addon-format listing
    last_sync_time,      \* last_sync_time: the sync cursor
    stats,               \* stats: pushes, pulls, errors, listings_synced
    \* the incoming artifact AH_IncomingData.lua as last written
    artifact,
    \* the transport as the engine used it
    lastCall,            \* the latest call made on the transport: its kind
                         \* (none, push, pull), whether it returned (ok), the
                         \* action list of a push, the cursor sent by a pull
    firstPushDone,       \* push_outgoing has run at least once
    submitted,           \* identities of all batches whose sync_push returned
    lastResponse,        \* the answer of the latest transport call, in the
                         \* specifications that keep it (PullSpec, PushSpec)
    \* SyncEngine fields written by check_notifications (client.py 852-904)
    last_notif_count,    \* _last_notif_count
    sale_alerts,         \* _sale_alerts: item names of the sales to show
    \* TAHClientGUI (gui.py)
    running,             \* self.running
    engine,              \* self.engine: the SyncEngine object in use, NoEngine for None
    engines,             \* number of SyncEngine objects constructed so far
    sync_thread,         \* self.sync_thread: the thread started last, NoThread for None
    threads,             \* the sync threads: position in _sync_loop, the engine
                         \* the running call was made on, the local initial_done
    timers,              \* pending root.after(..., self._auto_start) callbacks
    gui,                 \* the GUI thread: idle in the main loop, joining, or
                         \* closed (the window is destroyed)
    switches,            \* restarts of the sync asked for by the user; also the
                         \* index of the account that is active now
    owner,               \* owner[e]: the account the SyncEngine object e was
                         \* constructed for
    \* the bootstrap of _auto_start (gui.py 533-570, client.py 492-514)
    api_key,             \* config["api_key"]: the credential held, NoKey for none
    session_key,         \* session_key[e]: the X-API-Key header of engine e's session
    registers,           \* registers[e]: the register calls engine e has made
    limited,             \* a registration ended with the re-registration limit
                         \* and the user has not restarted the sync since
    lastBoot,            \* the latest run of _auto_start: its outcome, whether a
                         \* credential was held when ensure_registered began,
                         \* whether register was called
    key_backup,          \* the file .tah_key_backup of the ESO directory the
                         \* accounts share (gui.py 88-103): api_key, account_name
    \* the SavedVariables file and its change detection (client.py 144-182,
    \* 490, 549-564), followed in LoopSpec
    sv_file,             \* the file besides myListings and queue: crlf (its
                         \* bytes differ from its decoded text encoded again),
                         \* metadata.requestSync, the modification time
    last_hash,           \* SavedVarsManager._last_hash, NoHash for None
    last_sync_mtime,     \* SyncEngine._last_sync_mtime
    loop,                \* position of SyncEngine.run: initial_push, initial_pull,
                         \* idle (between ticks), push, pull
    read_file,           \* the file as it was when read() was last called
    reads,               \* number of read() calls made by _check_sync_request
    syncs,               \* syncs[m]: the cycles _check_sync_request has
                         \* triggered for the modification of time m
    cycle,               \* the tick counter of run, modulo HeartbeatEvery
    \* the file AH_IncomingData.lua as the file system holds it while
    \* write_incoming runs (client.py 350-351), followed in FileSpec
    disk,                \* the lines of the file that are on disk
    writer,              \* write_text: pc (idle, open), old (the content before
                         \* the file was opened), new (the content to write),
                         \* n (the writes begun)
    observed,            \* the lines the game found when it last loaded the file
    \* the SavedVariables codec (client.py 184-328, 362-396), followed in
    \* CodecSpec
    codec                \* the latest value encoded: v, its text, the value
                         \* decoded from the text

vars == <<myListings, queue, initial_sync_done, pushed_action_ids, pending_action_ids,
          synced_listing_ids, cached_listings, last_sync_time, stats, artifact,
          lastCall, firstPushDone, submitted, lastResponse, last_notif_count, sale_alerts,
          running, engine, engines, sync_thread, threads, timers, gui, switches,
          owner, api_key, session_key, registers, limited, lastBoot, key_backup,
          sv_file, last_hash, last_sync_mtime, loop, read_file, reads, syncs, cycle,
          disk, writer, observed, codec>>

fileVars == <<disk, writer, observed>>
codecVars == <<codec>>

loopVars == <<sv_file, last_hash, last_sync_mtime, loop, read_file, reads, syncs, cycle>>

bootVars == <<api_key, session_key, registers, limited, lastBoot, key_backup>>

guiVars == <<running, engine, engines, sync_thread, threads, timers, gui, switches,
             owner, bootVars>>

notifyVars == <<last_notif_count, sale_alerts>>

storeVars == <<myListings, queue>>
engineVars == <<initial_sync_done, pushed_action_ids, pending_action_ids,
                synced_listing_ids, cached_listings, last_sync_time, stats>>
transportVars == <<lastCall, firstPushDone, submitted, lastResponse>>

NoResponse == [kind |-> "none", body |-> <<>>]
PullResponse(r) == [kind |-> "pull", body |-> r]
PushResponse(results) == [kind |-> "push", body |-> results]

NoCall == [op |-> "none", ok |-> FALSE, batch |-> <<>>, since |-> NoCursor]
PushCall(batch, ok) == [op |-> "push", ok |-> ok, batch |-> batch, since |-> NoCursor]
PullCall(since, ok) == [op |-> "pull", ok |-> ok, batch |-> <<>>, since |-> since]
NotifCall(ok) == [op |-> "notifications", ok |-> ok, batch |-> <<>>, since |-> NoCursor]

\* a queue entry: a Lua table (dict) with an action kind and a payload, or any
\* other value (dict = FALSE); "" stands for a missing key
Entry(kind, lid, item) == [dict |-> TRUE, action |-> kind, id |-> lid, item |-> item]
NonDictEntry == [dict |-> FALSE, action |-> "", id |-> "", item |-> ""]

\* the entries the addon queues in this model
QueueChoices ==
    { Entry("create", "L1", ItemName("L1")),
      Entry("cancel", "L1", ""),
      Entry("purchase", "L2", ItemName("L2")),
      Entry("cancel_all", "", ""),
      NonDictEntry }

---------------------------------------------------------------------------
(* Python helpers used by push_outgoing *)

\* str(key) of a queue-slot key
DigitChar(d) ==
    CASE d = 0 -> "0" [] d = 1 -> "1" [] d = 2 -> "2" [] d = 3 -> "3" [] d = 4 -> "4"
      [] d = 5 -> "5" [] d = 6 -> "6" [] d = 7 -> "7" [] d = 8 -> "8" [] OTHER -> "9"

RECURSIVE Str(_)
Str(n) == IF n < 10 THEN DigitChar(n) ELSE Str(n \div 10) \o DigitChar(n % 10)

RECURSIVE Digits(_)
Digits(n) == IF n < 10 THEN <<n>> ELSE Append(Digits(n \div 10), n % 10)

\* str(a) < str(b): lexicographic order of the decimal digits
RECURSIVE SeqLess(_, _)
SeqLess(s, t) ==
    IF s = <<>> THEN t # <<>>
    ELSE IF t = <<>> THEN FALSE
    ELSE IF Head(s) # Head(t) THEN Head(s) < Head(t)
    ELSE SeqLess(Tail(s), Tail(t))

StrLess(a, b) == SeqLess(Digits(a), Digits(b))

\* sorted(actions.items(), key=lambda x: str(x[0])): the keys in that order
RECURSIVE SortedKeys(_)
SortedKeys(keys) ==
    IF keys = {} THEN <<>>
    ELSE LET k == CHOOSE x \in keys : \A y \in keys \ {x} : StrLess(x, y)
         IN  <<k>> \o SortedKeys(keys \ {k})

\* an action as it stands in the action list: the queue entry of slot `slot`,
\* or a synthetic action of the myListings scan (slot = 0)
Action(kind, lid, item, slot) ==
    [action |-> kind, id |-> lid, item |-> item, slot |-> slot]

\* action_id = f"{act}_{lid or key}"
IdentityOf(act, lid, key) == act \o "_" \o (IF lid # "" THEN lid ELSE Str(key))

ActionId(a) == IdentityOf(a.action, a.id, a.slot)

\* the identities of a batch, in order (what _pending_action_ids holds)
PendingIds(batch) == [i \in 1..Len(batch) |-> ActionId(batch[i])]

Range(s) == {s[i] : i \in 1..Len(s)}

\* "if not isinstance(action, dict) or not action.get("action"): continue" (585)
WellFormed(e) == e.dict /\ e.action # ""

\* "if action_id in self._pushed_action_ids: continue" (590)
AlreadyPushed(aid, seen) == aid \in seen

\* a push that forgets the cancel_all rule
IsCancelAll_Never(act) == FALSE

\* "if act == "cancel_all"" (594): recorded as pushed and skipped
IsCancelAll(act) == act = "cancel_all"

\* After the initial sync: the loop over the sorted queue (client.py 584-600).
\* Returns the seen-set and the action list after the keys `keys` were visited.
RECURSIVE QueueScan(_, _, _, _)
QueueScan(q, keys, seen, acc) ==
    IF keys = <<>> THEN [seen |-> seen, batch |-> acc]
    ELSE LET key == Head(keys)
             e == q[key]
             aid == IdentityOf(e.action, e.id, key)
         IN  IF ~WellFormed(e) THEN QueueScan(q, Tail(keys), seen, acc)
             ELSE IF AlreadyPushed(aid, seen) THEN QueueScan(q, Tail(keys), seen, acc)
             ELSE IF IsCancelAll(e.action)
                  THEN QueueScan(q, Tail(keys), seen \cup {aid}, acc)
             ELSE QueueScan(q, Tail(keys), seen,
                            Append(acc, Action(e.action, e.id, e.item, key)))

\* an initial sync that marks nothing
InitialMark_Nothing(q, seen) == seen

\* Initial sync: every dict entry of the queue is marked as pushed (client.py 604-614)
InitialMark(q, seen) ==
    seen \cup { IdentityOf(q[key].action, q[key].id, key) :
                    key \in {k \in DOMAIN q : q[k].dict} }

\* a scan that does not look at the confirmed-remote set
NeedsCreate_Unchecked(state, lid, synced) == state = "listed"

\* "if state == "listed" and lid not in self._synced_listing_ids" (623)
NeedsCreate(state, lid, synced) == state = "listed" /\ lid \notin synced

\* "elif state == "cancelled" and lid in self._synced_listing_ids" and
\* "if cancel_id not in self._pushed_action_ids" (634-637)
NeedsCancel(state, lid, synced, seen) ==
    /\ state = "cancelled"
    /\ lid \in synced
    /\ IdentityOf("cancel", lid, 0) \notin seen

\* The myListings scan (client.py 617-644), over the listings in file order
RECURSIVE ListingScan(_, _, _, _)
ListingScan(order, listings, synced, seen) ==
    IF order = <<>> THEN <<>>
    ELSE LET lid == Head(order)
             rest == ListingScan(Tail(order), listings, synced, seen)
         IN  IF listings[lid] = "none" THEN rest
             ELSE IF NeedsCreate(listings[lid], lid, synced)
             THEN <<Action("create", lid, ItemName(lid), 0)>> \o rest
             ELSE IF NeedsCancel(listings[lid], lid, synced, seen)
             THEN <<Action("cancel", lid, "", 0)>> \o rest
             ELSE rest

\* a clear_outgoing that empties the queue of the store
ClearOutgoing_Empties(q) == <<>>

\* SavedVarsManager.clear_outgoing (client.py 357-360): a no-op on the store
ClearOutgoing(q) == q

\* a scan of myListings that runs in every cycle
RunFallback_Always(action_list) == TRUE

\* "if not action_list and isinstance(my_listings, dict)" (617): the scan of
\* myListings runs only when the queue gave no action
RunFallback(action_list) == action_list = <<>>

\* The candidate actions of one push cycle (client.py 574-644): the seen-set as
\* the queue pass leaves it, and the action list
Candidates(q, listings, done, seen, synced) ==
    LET scan == IF done
                THEN QueueScan(q, SortedKeys(DOMAIN q), seen, <<>>)
                ELSE [seen |-> InitialMark(q, seen), batch |-> <<>>]
        batch == IF RunFallback(scan.batch)
                 THEN scan.batch \o ListingScan(ListingOrder, listings, synced, scan.seen)
                 ELSE scan.batch
    IN  [seen |-> scan.seen, batch |-> batch]

---------------------------------------------------------------------------
(* The batch response and the failure notifications (client.py 676-725) *)

ResultStatuses == {"ok", "error", "already_sold", "purchase_failed"}

\* the service answers one result per action, echoing the listing id
Responses(batch) ==
    { [i \in 1..Len(batch) |-> [id |-> batch[i].id, status |-> f[i]]] :
        f \in [1..Len(batch) -> ResultStatuses] }

Notif(type, lid, reason, item) ==
    [type |-> type, listing_id |-> lid, reason |-> reason, item_name |-> item]

\* a notification that names no item
ItemOf_Unknown(a) == "Unknown"

\* data.get("itemName", "Unknown")
ItemOf(a) == IF a.item # "" THEN a.item ELSE "Unknown"

\* the loop over result.get("results") (676-710): the failure notifications
RECURSIVE FailedNotifications(_, _, _)
FailedNotifications(batch, results, i) ==
    IF i > Len(results) THEN <<>>
    ELSE LET r == results[i]
             rest == FailedNotifications(batch, results, i + 1)
         IN  IF r.status = "error"
             THEN IF i <= Len(batch) /\ batch[i].action = "purchase"
                  THEN <<Notif("purchase_failed", r.id, "error", ItemOf(batch[i]))>> \o rest
                  ELSE rest
             ELSE IF r.status \in {"already_sold", "purchase_failed"}
             THEN <<Notif("purchase_failed", r.id, "already purchased",
                          IF i <= Len(batch) THEN ItemOf(batch[i]) ELSE "Unknown")>> \o rest
             ELSE rest

\* the addon-format listing the artifact and the mirror hold
AddonListing(lid, price) == [id |-> lid, itemName |-> ItemName(lid), price |-> price]

\* SyncEngine._listing_to_addon (client.py 817-839): field renaming
ListingToAddon(listing) ==
    [id |-> listing.id, itemName |-> listing.item_name, price |-> listing.price]

EmptyMap == [l \in {} |-> 0]

\* the "incoming" section found in the SavedVariables store when push re-reads it
SvIncomingChoices ==
    { [ah_listings |-> [l \in {"L2"} |-> AddonListing("L2", 10)],
       ah_notifications |-> <<Notif("item_sold", "L2", "", "Shield")>>] }

\* SavedVarsManager.write_incoming (client.py 330-351): the artifact is rewritten
WriteIncoming(data) == data

---------------------------------------------------------------------------
(* Initial state: a freshly constructed SyncEngine (client.py 477-490) over
   an empty store; the addon fills the store before or between cycles *)

\* the data of a pull that found nothing
NoData == [ah_listings |-> EmptyMap, ah_notifications |-> <<>>]

\* one line of AH_IncomingData.lua
Line(kind, data, n) == [kind |-> kind, data |-> data, n |-> n]

\* the `content` of write_incoming (343-348): two comment lines, the data, the
\* metadata with the sync count n
FileContent(data, n) ==
    << Line("comment", NoData, 0), Line("comment", NoData, 0),
       Line("AH_INCOMING_DATA", data, 0), Line("AH_SYNC_METADATA", NoData, n) >>

\* A Python value of the codec: k is its type (nil, bool, int, float, str,
\* list, dict); b the bool; i the int, or the float counted in units of 10^-7;
\* s the characters of the str; c the items of a list or dict in order, each
\* an entry with its key (NoDictKey in a list) and its value
Value(k, b, i, s, c) == [k |-> k, b |-> b, i |-> i, s |-> s, c |-> c]
DictKey(t, i, s) == [t |-> t, i |-> i, s |-> s]
NoDictKey == DictKey("none", 0, <<>>)
IntKey(n) == DictKey("int", n, <<>>)
StrKey(chars) == DictKey("str", 0, chars)
DictEntry(key, val) == [key |-> key, val |-> val]

NoneValue == Value("nil", FALSE, 0, <<>>, <<>>)
BoolValue(b) == Value("bool", b, 0, <<>>, <<>>)
IntValue(n) == Value("int", FALSE, n, <<>>, <<>>)
FloatValue(u) == Value("float", FALSE, u, <<>>, <<>>)
StrValue(chars) == Value("str", FALSE, 0, chars, <<>>)
ListValue(items) ==
    Value("list", FALSE, 0, <<>>, [j \in 1..Len(items) |-> DictEntry(NoDictKey, items[j])])
DictValue(entries) == Value("dict", FALSE, 0, <<>>, entries)

\* no value has been encoded yet
NoCodec ==
    [pc |-> "none", v |-> NoneValue, text |-> <<>>, table |-> <<>>, back |-> NoneValue]

Init ==
    /\ myListings = [l \in ListingIds |-> "none"]
    /\ queue = <<>>
    /\ initial_sync_done = FALSE
    /\ pushed_action_ids = {}
    /\ pending_action_ids = <<>>
    /\ synced_listing_ids = {}
    /\ cached_listings = EmptyMap
    /\ last_sync_time = NoCursor
    /\ stats = [pushes |-> 0, pulls |-> 0, errors |-> 0, listings_synced |-> 0]
    /\ artifact = [ah_listings |-> EmptyMap, ah_notifications |-> <<>>]
    /\ lastCall = NoCall
    /\ firstPushDone = FALSE
    /\ submitted = {}
    /\ lastResponse = NoResponse
    /\ last_notif_count = 0
    /\ sale_alerts = <<>>
    \* TAHClientGUI.__init__ (gui.py 27-41): no engine, no thread, one
    \* _auto_start scheduled
    /\ running = FALSE
    /\ engine = 0
    /\ engines = 0
    /\ sync_thread = 0
    /\ threads = [t \in 1..MaxThreads |->
                     [pc |-> "unborn", on |-> 0, initial_done |-> FALSE, acct |-> 0]]
    /\ timers = 1
    /\ gui = "idle"
    /\ switches = 0
    /\ owner = [e \in 1..MaxEngines |-> 0]
    \* no credential in the configuration; the key backup file may hold one
    /\ api_key = NoKey
    /\ session_key = [e \in 1..MaxEngines |-> NoKey]
    /\ registers = [e \in 1..MaxEngines |-> 0]
    /\ limited = FALSE
    /\ lastBoot = NoBoot
    \* the backup an earlier session of the first account left (88-103)
    /\ key_backup = KeyBackup(KeyOf(0), 0)
    \* SavedVarsManager.__init__ (144), SyncEngine.__init__ (490); the file is
    \* there, written by an earlier session of the game
    /\ sv_file = [crlf |-> FALSE, requestSync |-> FALSE, mtime |-> 1]
    /\ last_hash = NoHash
    /\ last_sync_mtime = 0
    /\ loop = "initial_push"
    /\ read_file = NoFile
    /\ reads = 0
    /\ syncs = [m \in 1..(MaxWrites + 1) |-> 0]
    /\ cycle = 0
    \* AH_IncomingData.lua as an earlier session left it, loaded by the game
    /\ disk = FileContent(NoData, 0)
    /\ writer = [pc |-> "idle", old |-> FileContent(NoData, 0),
                 new |-> FileContent(NoData, 0), n |-> 0]
    /\ observed = FileContent(NoData, 0)
    /\ codec = NoCodec

---------------------------------------------------------------------------
(* The addon (the game side) rewrites the store *)

\* the addon appends an action to outgoing.ah_actions
AddonQueue(e) ==
    /\ Len(queue) < MaxSlot
    /\ queue' = Append(queue, e)
    /\ UNCHANGED <<myListings, engineVars, artifact, transportVars, notifyVars, guiVars,
                   fileVars, codecVars, loopVars>>

\* the lifecycle of a local listing: posted, then cancelled or sold
ListingMoves == { <<"none", "listed">>, <<"listed", "cancelled">>, <<"listed", "sold">> }

\* the addon sets the declared state of one of the player's listings
AddonSetListing(l, st) ==
    /\ <<myListings[l], st>> \in ListingMoves
    /\ myListings' = [myListings EXCEPT ![l] = st]
    /\ UNCHANGED <<queue, engineVars, artifact, transportVars, notifyVars, guiVars,
                   fileVars, codecVars, loopVars>>

---------------------------------------------------------------------------
(* SyncEngine.push_outgoing (client.py 566-730) *)

OpsLeft == stats.pushes + stats.pulls + stats.errors < MaxOps

\* "for action in action_list: ... self._synced_listing_ids.add(lid)" (661-665)
SyncedAfterPush(synced, batch) ==
    synced \cup {batch[i].id : i \in {j \in 1..Len(batch) : batch[j].id # ""}}

\* "for aid in self._pending_action_ids: self._pushed_action_ids.add(aid)" (668-669)
PushedAfterPush(seen, pending) == seen \cup Range(pending)

\* the except branch (727-730) leaves _initial_sync_done as it is
InitialDoneAfterFailure(done) == done

\* a push that wrote the listings of its batch into the mirror
MirrorAfterPush_Optimistic(cache, batch) ==
    IF \E i \in 1..Len(batch) : batch[i].action = "create" /\ batch[i].id = "L1"
    THEN [l \in DOMAIN cache \cup {"L1"} |->
             IF l = "L1" THEN [id |-> "L1", itemName |-> "Sword", price |-> 0]
             ELSE cache[l]]
    ELSE cache

\* push_outgoing (566-730) has no assignment to _cached_listings
MirrorAfterPush(cache, batch) == cache

\* push_outgoing (566-730) has no assignment to last_sync_time
CursorAfterPush(cursor) == cursor

\* the try branch after sync_push returned `results` (653-725); seen is the
\* seen-set as the queue pass left it, svIncoming the "incoming" section of the
\* store as it is read again at line 715
PushReturned(seen, batch, svIncoming, results) ==
    LET failed == FailedNotifications(batch, results, 1)
    IN
    /\ stats' = [stats EXCEPT !.pushes = @ + 1]
    /\ synced_listing_ids' = SyncedAfterPush(synced_listing_ids, batch)
    /\ pushed_action_ids' = PushedAfterPush(seen, PendingIds(batch))
    /\ pending_action_ids' = <<>>
    /\ initial_sync_done' = TRUE
    /\ queue' = ClearOutgoing(queue)
    /\ artifact' =
         IF failed # <<>>
         THEN WriteIncoming([svIncoming EXCEPT !.ah_notifications = @ \o failed])
         ELSE artifact
    /\ lastCall' = PushCall(batch, TRUE)
    /\ submitted' = submitted \cup Range(PendingIds(batch))

\* One run of push_outgoing.  transportOk: sync_push returned `results`;
\* otherwise it raised a RequestException (results is empty then, as it is
\* when no call is made)
PushCycle(transportOk, svIncoming, results) ==
    \* the scan of the store (574-644), made once
    \E c \in {Candidates(queue, myListings, initial_sync_done,
                          pushed_action_ids, synced_listing_ids)} :
    \E batch \in {c.batch} :
    /\ OpsLeft
    /\ firstPushDone' = TRUE
    /\ IF batch = <<>>
       THEN \* "if not action_list: self._initial_sync_done = True; return" (646-648)
            /\ results = <<>>
            /\ initial_sync_done' = TRUE
            /\ pushed_action_ids' = c.seen
            /\ UNCHANGED <<queue, pending_action_ids, synced_listing_ids, stats,
                           artifact, lastCall, submitted>>
       ELSE IF transportOk
       THEN /\ results \in Responses(batch)
            /\ PushReturned(c.seen, batch, svIncoming, results)
       ELSE \* "except requests.exceptions.RequestException" (727-730)
            /\ results = <<>>
            /\ stats' = [stats EXCEPT !.errors = @ + 1]
            /\ pending_action_ids' = <<>>
            /\ pushed_action_ids' = c.seen
            /\ initial_sync_done' = InitialDoneAfterFailure(initial_sync_done)
            /\ lastCall' = PushCall(batch, FALSE)
            /\ UNCHANGED <<queue, synced_listing_ids, artifact, submitted>>
    /\ cached_listings' = MirrorAfterPush(cached_listings, batch)
    /\ last_sync_time' = CursorAfterPush(last_sync_time)
    /\ UNCHANGED <<myListings, notifyVars, guiVars, fileVars, codecVars>>

\* the batch the push cycle that starts in this state builds
ThisBatch ==
    Candidates(queue, myListings, initial_sync_done, pushed_action_ids,
               synced_listing_ids).batch

\* the answers a push cycle can get: those of the service for the batch when
\* the call is made and returns, none otherwise
AnswersOf(transportOk) ==
    IF transportOk /\ ThisBatch # <<>> THEN Responses(ThisBatch) ELSE {<<>>}

\* push_outgoing, whatever the service answers
PushOutgoing(transportOk, svIncoming) ==
    /\ \E results \in AnswersOf(transportOk) :
          PushCycle(transportOk, svIncoming, results)
    /\ UNCHANGED <<lastResponse, loopVars>>

\* push_outgoing, the answer of the service kept
PushRecorded(transportOk, svIncoming, results) ==
    /\ PushCycle(transportOk, svIncoming, results)
    /\ lastResponse' = IF results # <<>> THEN PushResponse(results) ELSE NoResponse
    /\ UNCHANGED loopVars

---------------------------------------------------------------------------
(* SyncEngine.pull_incoming (client.py 732-815) *)

\* a listing as the service reports it
RemoteListing(lid, price) == [id |-> lid, item_name |-> ItemName(lid), price |-> price]

\* the pull responses of the push-side specification: L1 is reported, or removed
PullResponses ==
    { [is_full_sync |-> full, listings |-> changed, removed_ids |-> removed,
       server_time |-> 1, notifications |-> <<>>] :
        full \in BOOLEAN,
        changed \in {EmptyMap, [l \in {"L1"} |-> RemoteListing("L1", 10)]},
        removed \in {{}, {"L1"}} }

\* the listing ids of the wide pull responses, their cursors, and the price the
\* service reports for a listing at server time t
RemoteIds == {"L1", "L2", "L3"}
Cursors == {1, 2}
PriceAt(t) == 10 * t

\* pull responses over all sets of changed and removed ids, full or delta
PullResponsesWide ==
    { [is_full_sync |-> full,
       listings |-> [l \in S |-> RemoteListing(l, PriceAt(t))],
       removed_ids |-> R, server_time |-> t, notifications |-> <<>>] :
        full \in BOOLEAN, S \in SUBSET RemoteIds, R \in SUBSET RemoteIds, t \in Cursors }

\* a full sync that merges into the old cache
FullSyncCache_Merges(changed) ==
    [l \in (DOMAIN cached_listings) \cup (DOMAIN changed) |->
        IF l \in DOMAIN changed THEN ListingToAddon(changed[l]) ELSE cached_listings[l]]

\* full sync: the cache is rebuilt from the response (753-759)
FullSyncCache(changed) == [l \in DOMAIN changed |-> ListingToAddon(changed[l])]

\* a delta sync that forgets the removed ids
DeltaCache_KeepsRemoved(cache, changed, removed) ==
    [l \in (DOMAIN cache) \cup (DOMAIN changed) |->
        IF l \in DOMAIN changed THEN ListingToAddon(changed[l]) ELSE cache[l]]

\* delta sync: changed listings are merged, removed ids are dropped (765-772)
DeltaCache(cache, changed, removed) ==
    [l \in ((DOMAIN cache) \cup (DOMAIN changed)) \ removed |->
        IF l \in DOMAIN changed THEN ListingToAddon(changed[l]) ELSE cache[l]]

\* a delta pull that leaves the confirmed-remote set as it was
SyncedAfterPull_DeltaSkips(synced, full, changed, removed) ==
    IF full THEN synced \cup DOMAIN changed ELSE synced \ removed

\* _synced_listing_ids after the pull (758, 767, 772)
SyncedAfterPull(synced, full, changed, removed) ==
    IF full THEN synced \cup DOMAIN changed
    ELSE (synced \cup DOMAIN changed) \ removed

\* APIClient.sync_pull (439-447): "if since: params["since"] = since" - the
\* cursor is sent when it is set, otherwise the request carries none
SinceParam(since) == IF since # NoCursor THEN since ELSE NoCursor

\* a pull that keeps its old cursor
CursorAfterPull_Keeps(old, server_time) == old

\* "self.last_sync_time = result.get("server_time")" (751)
CursorAfterPull(old, server_time) == server_time

\* a failed pull that forgets the cursor
CursorAfterFailedPull_Reset(cursor) == NoCursor

\* the except branch returns before the cursor is assigned (740-743)
CursorAfterFailedPull(cursor) == cursor

PullCycle(transportOk, full, changed, removed, cursor, notifs) ==
    /\ OpsLeft
    /\ lastCall' = PullCall(SinceParam(last_sync_time), transportOk)
    /\ IF ~transportOk
       THEN \* "except requests.exceptions.RequestException" (740-743)
            /\ stats' = [stats EXCEPT !.errors = @ + 1]
            /\ last_sync_time' = CursorAfterFailedPull(last_sync_time)
            /\ UNCHANGED <<cached_listings, synced_listing_ids, artifact>>
       ELSE LET cache == IF full THEN FullSyncCache(changed)
                         ELSE DeltaCache(cached_listings, changed, removed)
            IN
            /\ last_sync_time' = CursorAfterPull(last_sync_time, cursor)
            /\ cached_listings' = cache
            /\ synced_listing_ids' =
                  SyncedAfterPull(synced_listing_ids, full, changed, removed)
            /\ artifact' = WriteIncoming([ah_listings |-> cache, ah_notifications |-> notifs])
            /\ stats' = [stats EXCEPT !.pulls = @ + 1,
                                      !.listings_synced = Cardinality(DOMAIN cache)]
    /\ UNCHANGED <<storeVars, initial_sync_done, pushed_action_ids, pending_action_ids,
                   firstPushDone, submitted, notifyVars, guiVars, fileVars, codecVars>>

\* pull_incoming, the response not kept
PullIncoming(transportOk, full, changed, removed, cursor, notifs) ==
    /\ PullCycle(transportOk, full, changed, removed, cursor, notifs)
    /\ UNCHANGED <<lastResponse, loopVars>>

\* pull_incoming, the response r of the service kept
PullRecorded(transportOk, r) ==
    /\ PullCycle(transportOk, r.is_full_sync, r.listings, r.removed_ids, r.server_time,
                 r.notifications)
    /\ lastResponse' = IF transportOk THEN PullResponse(r) ELSE NoResponse
    /\ UNCHANGED loopVars

---------------------------------------------------------------------------
(* SyncEngine.check_notifications (client.py 852-904) *)

\* a notification of the service: its type and the item name of its data
ServerNotif(type, item) == [type |-> type, item_name |-> item]

\* the answers of get_notifications
NotificationLists ==
    { <<>>,
      <<ServerNotif("item_sold", "Sword")>>,
      <<ServerNotif("purchase_cod_received", "Shield"), ServerNotif("outbid", "")>> }

\* "if ntype == "item_sold": ... self._sale_alerts.append(...)" (874-885); the
\* other types only raise a desktop notification
RECURSIVE SaleAlerts(_)
SaleAlerts(notifs) ==
    IF notifs = <<>> THEN <<>>
    ELSE IF Head(notifs).type = "item_sold"
         THEN <<Head(notifs).item_name>> \o SaleAlerts(Tail(notifs))
         ELSE SaleAlerts(Tail(notifs))

\* a poll that writes what it received into the incoming artifact
StoreAfterNotifications_Writes(art, notifs) ==
    [art EXCEPT !.ah_notifications =
        [i \in 1..Len(notifs) |-> Notif(notifs[i].type, "", "", notifs[i].item_name)]]

\* check_notifications calls neither write_incoming nor write_metadata
StoreAfterNotifications(art, notifs) == art

\* named: player_name is set; transportOk: get_notifications returned notifs
CheckNotifications(transportOk, named, notifs) ==
    /\ Len(sale_alerts) + Len(SaleAlerts(notifs)) <= MaxAlerts
    /\ IF ~named
       THEN \* "if not self.player_name: return" (857-858)
            /\ last_notif_count' = 0
            /\ UNCHANGED <<sale_alerts, lastCall, artifact>>
       ELSE IF transportOk
       THEN /\ last_notif_count' = Len(notifs)
            /\ sale_alerts' = sale_alerts \o SaleAlerts(notifs)
            /\ lastCall' = NotifCall(TRUE)
            /\ artifact' = StoreAfterNotifications(artifact, notifs)
       ELSE \* "except Exception" (903-904)
            /\ last_notif_count' = 0
            /\ lastCall' = NotifCall(FALSE)
            /\ UNCHANGED <<sale_alerts, artifact>>
    /\ UNCHANGED <<storeVars, engineVars, firstPushDone, submitted, lastResponse, guiVars,
                   fileVars, codecVars, loopVars>>

---------------------------------------------------------------------------

Next ==
    \/ \E e \in QueueChoices : AddonQueue(e)
    \/ \E l \in ListingIds, st \in ListingStates : AddonSetListing(l, st)
    \/ \E ok \in BOOLEAN, inc \in SvIncomingChoices : PushOutgoing(ok, inc)
    \/ \E r \in PullResponses :
          PullIncoming(TRUE, r.is_full_sync, r.listings, r.removed_ids, r.server_time,
                       r.notifications)
    \* sync_pull raises: there is no response
    \/ PullIncoming(FALSE, FALSE, EmptyMap, {}, NoCursor, <<>>)

Spec == Init /\ [][Next]_vars

\* The engine against a service with three listings: the pulls take every
\* response of PullResponsesWide and keep it; the store is empty, so the push
\* cycles in between find nothing to submit
NextPull ==
    \/ \E ok \in BOOLEAN, inc \in SvIncomingChoices : PushOutgoing(ok, inc)
    \/ \E r \in PullResponsesWide :
          \* the clock of the service does not go back
          /\ r.server_time >= last_sync_time
          /\ PullRecorded(TRUE, r)
    \/ PullRecorded(FALSE, CHOOSE r \in PullResponsesWide : TRUE)

PullSpec == Init /\ [][NextPull]_vars

\* The push cycles with the answers of the service kept: the addon queues
\* actions and lists or cancels L1, the engine pushes
NextPush ==
    \/ \E e \in QueueChoices : AddonQueue(e)
    \/ \E st \in ListingStates : AddonSetListing("L1", st)
    \/ \E ok \in BOOLEAN, inc \in SvIncomingChoices :
          \E results \in Responses(ThisBatch) \cup {<<>>} : PushRecorded(ok, inc, results)

PushSpec == Init /\ [][NextPush]_vars

\* The loop of SyncEngine.run with its periodic notification poll: push and
\* pull cycles over the one listing L1, and check_notifications at any time
NextNotify ==
    \/ \E st \in ListingStates : AddonSetListing("L1", st)
    \/ \E ok \in BOOLEAN, inc \in SvIncomingChoices : PushOutgoing(ok, inc)
    \/ \E ok \in BOOLEAN, r \in PullResponses :
          PullIncoming(ok, r.is_full_sync, r.listings, r.removed_ids, r.server_time,
                       r.notifications)
    \/ \E ok \in BOOLEAN, named \in BOOLEAN, ns \in NotificationLists :
          CheckNotifications(ok, named, ns)

NotifySpec == Init /\ [][NextNotify]_vars

\* Push and pull cycles over the one listing L1 with the answers of the service
\* kept: the addon lists or cancels L1, the engine pushes and pulls
NextMirror ==
    \/ \E st \in ListingStates : AddonSetListing("L1", st)
    \/ \E ok \in BOOLEAN, inc \in SvIncomingChoices :
          \E results \in AnswersOf(ok) : PushRecorded(ok, inc, results)
    \/ \E r \in PullResponses : PullRecorded(TRUE, r)
    \/ PullRecorded(FALSE, CHOOSE r \in PullResponses : TRUE)

MirrorSpec == Init /\ [][NextMirror]_vars

\* the addon appends an entry to a queue of up to MaxQueue slots
AddonQueueLong(e) ==
    /\ Len(queue) < MaxQueue
    /\ queue' = Append(queue, e)
    /\ UNCHANGED <<myListings, engineVars, artifact, transportVars, notifyVars, guiVars,
                   fileVars, codecVars, loopVars>>

\* the entries of the long queue: a create and a cancel of L1
LongQueueChoices == { Entry("create", "L1", ItemName("L1")), Entry("cancel", "L1", "") }

\* A long explicit queue: the addon queues creates and cancels of L1, the push
\* cycles find the service unreachable, or reach it with a batch of at most
\* two actions
NextQueue ==
    \/ \E e \in LongQueueChoices : AddonQueueLong(e)
    \/ \E inc \in SvIncomingChoices : PushOutgoing(FALSE, inc)
    \/ \E inc \in SvIncomingChoices :
          /\ ThisBatch # <<>>
          /\ Len(ThisBatch) <= 2
          /\ PushOutgoing(TRUE, inc)

QueueSpec == Init /\ [][NextQueue]_vars

---------------------------------------------------------------------------
(* TAHClientGUI (gui.py): the GUI thread starts and restarts the sync thread.

   The engines' data is left out here: a call of push_outgoing, pull_incoming
   or check_notifications is the interval between its begin and its end, and
   `on` is the SyncEngine object self.engine gave when the call began. *)

NoEngine == 0
NoThread == 0

\* positions of _sync_loop where the thread waits: time.sleep(5) / sleep(10),
\* or a transport call (timeouts of 5 to 30 seconds)
Blocking == {"sleep", "in_push", "in_pull", "in_poll"}
InCall == {"in_push", "in_pull", "in_poll"}

engineData == <<storeVars, engineVars, artifact, transportVars, notifyVars, loopVars,
                fileVars, codecVars>>

\* what the steps of a sync thread leave alone
guiRest == <<running, engine, engines, sync_thread, timers, gui, switches, owner,
             bootVars>>

At(t, pc) == threads[t].pc = pc
Goto(t, pc, on) == threads' = [threads EXCEPT ![t].pc = pc, ![t].on = on]

\* _backup_api_key (88-103), called by _save_config (86): "if not api_key or
\* not eso_dir: return", otherwise the file is written over
BackupApiKey(file, key, account) ==
    IF key = NoKey THEN file ELSE KeyBackup(key, account)

\* _restore_api_key (105-117): "return data.get("api_key", "")"
RestoreApiKey(file, account) == file.api_key

\* _on_account_switch (254-270), and the same lines of _add_account (335-337)
\* and _remove_account (367-369): "self.running = False", then the join
\* stored: the entry of the account now selected holds a credential, which
\* _apply_account_to_config copies into the configuration (246-252, 264)
RestartSync(stored) ==
    /\ gui = "idle"
    /\ switches < MaxSwitches
    /\ switches' = switches + 1
    /\ api_key' = IF stored THEN KeyOf(switches + 1) ELSE NoKey
    \* "self._save_config()" (265)
    /\ key_backup' = BackupApiKey(key_backup, api_key', switches')
    /\ limited' = FALSE
    /\ running' = FALSE
    /\ gui' = "joining"
    /\ UNCHANGED <<engine, engines, sync_thread, threads, timers, owner,
                   session_key, registers, lastBoot, engineData>>

\* "if self.sync_thread and self.sync_thread.is_alive(): self.sync_thread.join(timeout=3)"
\* returns: there is no live thread, or the 3 seconds pass while the thread
\* sleeps or waits for the service; then "self.engine = None" and
\* "self.root.after(500, self._auto_start)" (271-274)
JoinReturns ==
    /\ gui = "joining"
    /\ \/ sync_thread = NoThread
       \/ sync_thread # NoThread /\ threads[sync_thread].pc = "dead"
       \/ sync_thread # NoThread /\ threads[sync_thread].pc \in Blocking
    /\ engine' = NoEngine
    /\ timers' = timers + 1
    /\ gui' = "idle"
    /\ UNCHANGED <<running, engines, sync_thread, threads, switches, owner, bootVars,
                   engineData>>

\* the outcomes of one run of _auto_start (484-578):
\*   "early": no player name yet, retry in 30 s, no engine built (510-515)
\*   "offline": engine built, check_server fails, retry in 30 s (522-528)
\*   "rate_limited": register answered 429, retry in 2 minutes (555-559)
\*   "limit": register answered 409, no retry (560-565)
\*   "auth_failed": register failed otherwise, retry in 30 s (566-569)
\*   "started": authenticated, running set, sync thread started (572-578)
Outcomes == {"early", "offline", "rate_limited", "limit", "auth_failed", "started"}

\* the outcomes after which _auto_start schedules itself again with root.after
Rescheduling == {"early", "offline", "rate_limited", "auth_failed"}

\* the outcomes of a register call that raised
RegisterFailures == {"rate_limited", "limit", "auth_failed"}

\* an ensure_registered that registers whatever the configuration holds
NeedsRegister_Always(key) == TRUE

\* ensure_registered: "if self.config.get("api_key"): ... return" (494-496)
NeedsRegister(key) == key = NoKey

\* a 429 branch that gives up
TimersAfter_NoRetry(n, outcome) ==
    IF outcome \in Rescheduling \ {"rate_limited"} THEN n ELSE n - 1

\* the pending _auto_start callbacks after this one ran: it is consumed, and
\* the rescheduling outcomes call root.after once (514, 527, 559, 569)
TimersAfter(n, outcome) == IF outcome \in Rescheduling THEN n ELSE n - 1

\* _auto_start (484-578) run by a timer.  backup: the key backup file is
\* there and can be read (_restore_api_key, 533-539)
AutoStart(outcome, backup) ==
    LET e == engines + 1
        \* the configuration when ensure_registered begins
        key == IF api_key = NoKey /\ backup THEN RestoreApiKey(key_backup, switches)
               ELSE api_key
        called == NeedsRegister(key)
        built == outcome # "early"
        entered == outcome \in RegisterFailures \cup {"started"}
    IN
    /\ gui = "idle"
    /\ timers > 0
    /\ built => engines < MaxEngines
    \* register raises only when it is called
    /\ outcome \in RegisterFailures => called
    /\ outcome = "started" => \E t \in 1..MaxThreads : At(t, "unborn")
    /\ engines' = IF built THEN e ELSE engines
    /\ engine' = IF built THEN e ELSE engine
    \* "SyncEngine(self.config)": the configuration is that of the active account
    /\ owner' = IF built THEN [owner EXCEPT ![e] = switches] ELSE owner
    /\ timers' = TimersAfter(timers, outcome)
    /\ registers' = IF entered /\ called THEN [registers EXCEPT ![e] = @ + 1]
                    ELSE registers
    \* the restored key is saved (537-539); a successful register stores the
    \* returned credential (client.py 510, gui.py 544-551)
    /\ api_key' = IF outcome = "started" /\ called THEN KeyOf(switches)
                  ELSE IF entered THEN key
                  ELSE api_key
    \* APIClient.__init__ (410-411) and set_api_key (413-415)
    /\ session_key' =
          IF ~built THEN session_key
          ELSE IF outcome = "started" /\ called
               THEN [session_key EXCEPT ![e] = KeyOf(switches)]
          ELSE IF entered /\ ~called THEN [session_key EXCEPT ![e] = key]
          ELSE [session_key EXCEPT ![e] = api_key]
    \* "self._save_config()" after the restore (539) and after
    \* ensure_registered returned (551)
    /\ key_backup' = IF entered /\ (key # api_key \/ outcome = "started")
                     THEN BackupApiKey(key_backup, api_key', switches)
                     ELSE key_backup
    /\ limited' = (limited \/ outcome = "limit")
    /\ lastBoot' = [outcome |-> outcome, held |-> entered /\ key # NoKey,
                    called |-> entered /\ called]
    /\ IF outcome = "started"
       THEN LET t == CHOOSE x \in 1..MaxThreads :
                        At(x, "unborn") /\ \A y \in 1..MaxThreads : At(y, "unborn") => x <= y
            IN  /\ running' = TRUE
                /\ sync_thread' = t
                /\ threads' = [threads EXCEPT ![t].pc = "head", ![t].on = NoEngine,
                                              ![t].acct = switches]
       ELSE UNCHANGED <<running, sync_thread, threads>>
    /\ UNCHANGED <<gui, switches, engineData>>

\* _on_close (693-695): "self.running = False", "self.root.destroy()"; the
\* callbacks scheduled with root.after go with the window
Close ==
    /\ gui = "idle"
    /\ gui' = "closed"
    /\ running' = FALSE
    /\ timers' = 0
    /\ UNCHANGED <<engine, engines, sync_thread, threads, switches, owner, bootVars,
                   engineData>>

\* a loop that never looks at the stop flag
LoopCondition_Ignored(flag) == TRUE

\* the condition of "while self.running:" (625)
LoopCondition(flag) == flag

\* "while self.running:" (625), evaluated at the top of a cycle only
ThreadHead(t) ==
    /\ At(t, "head")
    /\ Goto(t, IF LoopCondition(running) THEN "sync" ELSE "dead", NoEngine)
    /\ UNCHANGED <<guiRest, engineData>>

\* "self.engine.push_outgoing()" begins: the initial sync of this thread, or
\* the addon asked for a sync (629-640)
ThreadBeginPush(t) ==
    /\ At(t, "sync")
    /\ engine # NoEngine
    /\ Goto(t, "in_push", engine)
    /\ UNCHANGED <<guiRest, engineData>>

\* push_outgoing returned; "self.engine.pull_incoming()" begins (633, 641)
ThreadBeginPull(t) ==
    /\ At(t, "in_push")
    /\ engine # NoEngine
    /\ Goto(t, "in_pull", engine)
    /\ UNCHANGED <<guiRest, engineData>>

\* pull_incoming returned: "initial_done = True" (634)
ThreadEndPull(t) ==
    /\ At(t, "in_pull")
    /\ threads' = [threads EXCEPT ![t].pc = "poll", ![t].on = NoEngine,
                                  ![t].initial_done = TRUE]
    /\ UNCHANGED <<guiRest, engineData>>

\* no sync in this cycle: the initial sync is done and the addon asked for none (638)
ThreadSkipSync(t) ==
    /\ At(t, "sync")
    /\ engine # NoEngine
    /\ threads[t].initial_done
    /\ Goto(t, "poll", NoEngine)
    /\ UNCHANGED <<guiRest, engineData>>

\* every sixth cycle: "self.engine.check_notifications()" begins (645-655)
ThreadBeginPoll(t) ==
    /\ At(t, "poll")
    /\ engine # NoEngine
    /\ Goto(t, "in_poll", engine)
    /\ UNCHANGED <<guiRest, engineData>>

\* the end of the cycle, after the poll or without one: "time.sleep(5)" (686)
ThreadSleep(t) ==
    /\ At(t, "in_poll") \/ (At(t, "poll") /\ engine # NoEngine)
    /\ Goto(t, "sleep", NoEngine)
    /\ UNCHANGED <<guiRest, engineData>>

\* self.engine is None when the thread reads it: the AttributeError is caught
\* by "except Exception", "time.sleep(10)", "continue" (680-684)
ThreadNoEngine(t) ==
    /\ At(t, "sync") \/ At(t, "in_push") \/ At(t, "poll")
    /\ engine = NoEngine
    /\ Goto(t, "sleep", NoEngine)
    /\ UNCHANGED <<guiRest, engineData>>

\* push_outgoing, or the read of the store in it, raises something other
\* than a RequestException: "except Exception", "time.sleep(10)", "continue"
\* (680-685)
ThreadRaises(t) ==
    /\ At(t, "in_push")
    /\ Goto(t, "sleep", NoEngine)
    /\ UNCHANGED <<guiRest, engineData>>

\* the sleep ends: back to the loop condition
ThreadWake(t) ==
    /\ At(t, "sleep")
    /\ Goto(t, "head", NoEngine)
    /\ UNCHANGED <<guiRest, engineData>>

\* one step of the sync thread t
ThreadStep(t) ==
    \/ ThreadHead(t)
    \/ ThreadBeginPush(t)
    \/ ThreadBeginPull(t)
    \/ ThreadEndPull(t)
    \/ ThreadSkipSync(t)
    \/ ThreadBeginPoll(t)
    \/ ThreadSleep(t)
    \/ ThreadNoEngine(t)
    \/ ThreadRaises(t)
    \/ ThreadWake(t)

NextGui ==
    \/ \E stored \in BOOLEAN : RestartSync(stored)
    \/ JoinReturns
    \/ Close
    \/ \E outcome \in Outcomes, backup \in BOOLEAN : AutoStart(outcome, backup)
    \/ \E t \in 1..MaxThreads : ThreadStep(t)

GuiSpec == Init /\ [][NextGui]_vars

\* The sync threads under the stop flag: every bootstrap succeeds at once,
\* the user restarts the sync or closes the window at any time
NextStop ==
    \/ RestartSync(TRUE)
    \/ JoinReturns
    \/ Close
    \/ AutoStart("started", FALSE)
    \/ \E t \in 1..MaxThreads : ThreadStep(t)

\* every started thread is scheduled again and again: its sleeps end and its
\* transport calls return (timeouts of 5 to 30 seconds)
StopSpec == Init /\ [][NextStop]_vars /\ \A t \in 1..MaxThreads : WF_vars(ThreadStep(t))

\* The bootstrap against a service that accepts the registration in the end:
\* it never answers with the re-registration limit, and a run of _auto_start
\* fails only while another engine can still be built; the user may switch
\* the account but leaves the window open
NextBoot ==
    \/ \E stored \in BOOLEAN : RestartSync(stored)
    \/ JoinReturns
    \/ \E outcome \in Rescheduling, backup \in BOOLEAN :
          /\ engines + 1 < MaxEngines
          /\ AutoStart(outcome, backup)
    \/ \E backup \in BOOLEAN : AutoStart("started", backup)
    \/ \E t \in 1..MaxThreads : ThreadStep(t)

\* the Tk main loop runs every scheduled callback, and the service accepts in
\* the end; the join returns after its 3 seconds; the thread is scheduled
BootSpec ==
    /\ Init /\ [][NextBoot]_vars
    /\ SF_vars(JoinReturns)
    /\ WF_vars(\E backup \in BOOLEAN : AutoStart("started", backup))
    /\ \A t \in 1..MaxThreads : WF_vars(ThreadStep(t))

---------------------------------------------------------------------------
(* SyncEngine.run (client.py 960-1028): the initial sync, then one tick every
   five seconds; SavedVarsManager.has_changed and _check_sync_request decide
   whether a tick runs a push and pull cycle.  The heartbeat and the
   notification poll of every sixth tick do not touch the store. *)

\* "if cycle % 6 == 0:" (1005): the heartbeat and the notification poll
HeartbeatEvery == 6

\* what the file holds: the listings, the queue and metadata.requestSync
Content == <<myListings, queue, sv_file.requestSync>>

\* has_changed (168): the md5 of the bytes of the file
HashBytes == [content |-> Content, crlf |-> sv_file.crlf]

\* read (179-180): the md5 of read_text(...).encode() - the text read with
\* newline translation and errors="replace", encoded again; for a file with
\* CR LF line ends or bytes that are not UTF-8 these are not its bytes
HashText == [content |-> Content, crlf |-> FALSE]

\* the file as a reader finds it now
FileNow == [content |-> Content, crlf |-> sv_file.crlf, mtime |-> sv_file.mtime]

\* the game writes the file (on /reloadui, /ah refresh or logout): metadata
\* only, or with the listing L1 posted; the line ends are those of the
\* platform, the same at every write
AddonWrite(kind, req, crlf) ==
    /\ sv_file.mtime <= MaxWrites
    /\ sv_file.mtime > 1 => crlf = sv_file.crlf
    /\ IF kind = "list"
       THEN /\ myListings["L1"] = "none"
            /\ myListings' = [myListings EXCEPT !["L1"] = "listed"]
       ELSE UNCHANGED myListings
    /\ sv_file' = [crlf |-> crlf, requestSync |-> req, mtime |-> sv_file.mtime + 1]
    /\ UNCHANGED <<queue, engineVars, artifact, transportVars, notifyVars, guiVars,
                   fileVars, codecVars, last_hash, last_sync_mtime, loop, read_file, reads, syncs, cycle>>

\* "self.push_outgoing()" of the initial sync (986) or of a requested cycle
\* (1000); push_outgoing reads the file (573)
LoopPush(transportOk) ==
    /\ loop \in {"initial_push", "push"}
    /\ \E inc \in SvIncomingChoices, results \in AnswersOf(transportOk) :
          PushCycle(transportOk, inc, results)
    /\ last_hash' = HashText
    /\ read_file' = FileNow
    /\ loop' = IF loop = "initial_push" THEN "initial_pull" ELSE "pull"
    /\ UNCHANGED <<lastResponse, sv_file, last_sync_mtime, reads, syncs, cycle>>

\* "self.pull_incoming()" (987, 1001)
LoopPull(transportOk) ==
    /\ loop \in {"initial_pull", "pull"}
    /\ \E r \in PullResponses :
          PullCycle(transportOk, r.is_full_sync, r.listings, r.removed_ids,
                    r.server_time, r.notifications)
    /\ loop' = "idle"
    /\ UNCHANGED <<lastResponse, sv_file, last_hash, last_sync_mtime, read_file,
                   reads, syncs, cycle>>

\* one tick of the loop: "if self.sv.has_changed() and
\* self._check_sync_request():" (998)
Tick ==
    LET changed == HashBytes # last_hash                  \* has_changed (164-171)
        stale == sv_file.mtime = last_sync_mtime          \* 555-557
        decode == changed /\ ~stale                       \* "data = self.sv.read()" (558)
        request == decode /\ sv_file.requestSync          \* 559-563
    IN
    /\ loop = "idle"
    /\ cycle' = (cycle + 1) % HeartbeatEvery              \* "cycle += 1" (995)
    /\ decode => reads < MaxOps
    /\ last_hash' = IF decode THEN HashText ELSE last_hash
    /\ read_file' = IF decode THEN FileNow ELSE read_file
    /\ reads' = IF decode THEN reads + 1 ELSE reads
    /\ last_sync_mtime' = IF request THEN sv_file.mtime ELSE last_sync_mtime
    /\ syncs' = IF request THEN [syncs EXCEPT ![sv_file.mtime] = @ + 1] ELSE syncs
    /\ loop' = IF request THEN "push" ELSE "idle"
    /\ UNCHANGED <<storeVars, engineVars, artifact, transportVars, notifyVars, guiVars,
                   fileVars, codecVars, sv_file>>

NextLoop ==
    \/ \E kind \in {"meta", "list"}, req \in BOOLEAN, crlf \in BOOLEAN :
          AddonWrite(kind, req, crlf)
    \/ \E ok \in BOOLEAN : LoopPush(ok)
    \/ \E ok \in BOOLEAN : LoopPull(ok)
    \/ Tick

LoopSpec == Init /\ [][NextLoop]_vars

\* The loop under a transport that fails once at most, with the ticks and
\* the calls of a cycle taking place; nothing obliges the game to write
NextRetry ==
    \/ \E kind \in {"meta", "list"}, req \in BOOLEAN : AddonWrite(kind, req, FALSE)
    \/ \E ok \in BOOLEAN : (ok \/ stats.errors = 0) /\ LoopPush(ok)
    \/ LoopPull(TRUE)
    \/ Tick

RetrySpec ==
    /\ Init /\ [][NextRetry]_vars
    /\ WF_vars(LoopPush(TRUE) \/ LoopPull(TRUE) \/ Tick)

---------------------------------------------------------------------------
(* Steps of the engine, as the properties below name them *)

\* a step that is one run of push_outgoing
PushStep == \E ok \in BOOLEAN, inc \in SvIncomingChoices : PushOutgoing(ok, inc)

\* a push cycle that handed a batch (lastCall'.batch) to the transport
PushCallStep == lastCall'.op = "push" /\ stats' # stats
PushOkStep == PushCallStep /\ lastCall'.ok
PushFailStep == PushCallStep /\ ~lastCall'.ok

BatchIds(batch) == {ActionId(batch[i]) : i \in 1..Len(batch)}

\* the identities of the table-valued entries of the queue
QueueIds == {IdentityOf(queue[k].action, queue[k].id, k) : k \in {j \in DOMAIN queue : queue[j].dict}}

\* the queue entries a push cycle has to submit: well-formed, not cancel_all,
\* identity not in the seen-set
Submittable(k) ==
    /\ WellFormed(queue[k])
    /\ queue[k].action # "cancel_all"
    /\ IdentityOf(queue[k].action, queue[k].id, k) \notin pushed_action_ids

QueueAction(k) == Action(queue[k].action, queue[k].id, queue[k].item, k)

---------------------------------------------------------------------------
(* C1 *)

\* C1: once a batch holding an action identity was submitted successfully, no
\* later batch holds an action with that identity (queue-derived or synthetic,
\* also after a delta pull reported the listing in removed_ids).
C1_NoResubmission ==
    [][PushCallStep => BatchIds(lastCall'.batch) \cap submitted = {}]_vars

---------------------------------------------------------------------------
(* C2 *)

\* C2: no batch handed to the transport holds a cancel_all action, in any
\* cycle and on either path; a cancel_all entry of the queue read after the
\* initial sync is in the seen-set when the cycle ends.
C2_NoCancelAll ==
    /\ [](lastCall.op = "push" =>
            \A i \in 1..Len(lastCall.batch) : lastCall.batch[i].action # "cancel_all")
    /\ [][PushStep /\ initial_sync_done =>
            \A k \in DOMAIN queue :
                (WellFormed(queue[k]) /\ queue[k].action = "cancel_all")
                    => IdentityOf("cancel_all", queue[k].id, k) \in pushed_action_ids']_vars

\* a batch went out while a cancel_all entry was in the queue; the entry was
\* recorded as seen and is not in the batch
C2_Witness ==
    /\ lastCall.op = "push"
    /\ lastCall.batch # <<>>
    /\ initial_sync_done
    /\ \E k \in DOMAIN queue :
          /\ queue[k].action = "cancel_all"
          /\ IdentityOf("cancel_all", queue[k].id, k) \in pushed_action_ids

---------------------------------------------------------------------------
(* C3 *)

---------------------------------------------------------------------------
(* C4 *)

\* C4: in every push cycle after the first, each well-formed queue entry of
\* kind other than cancel_all whose identity is not in the seen-set is
\* submitted in the batch of that cycle (an action with its identity is in the
\* batch) - also when the push call of the first cycle failed.
C4_NewActionsSubmitted ==
    [][(PushStep /\ firstPushDone) =>
          \A k \in DOMAIN queue :
              Submittable(k) =>
                  /\ PushCallStep
                  /\ IdentityOf(queue[k].action, queue[k].id, k)
                         \in BatchIds(lastCall'.batch)]_vars

\* the part of C4 that holds: once the initial sync is done
C4_AfterInitialSync ==
    [][(PushStep /\ initial_sync_done) =>
          \A k \in DOMAIN queue :
              Submittable(k) =>
                  /\ PushCallStep
                  /\ IdentityOf(queue[k].action, queue[k].id, k)
                         \in BatchIds(lastCall'.batch)]_vars

---------------------------------------------------------------------------
(* C5 *)

\* the queue yields at least one action in the cycle that starts here
QueueYields == initial_sync_done /\ \E k \in DOMAIN queue : Submittable(k)

\* C5: the actions of a batch come from one source; when the queue yields an
\* action the batch holds queue entries only, and the myListings scan
\* contributes only when the queue yields none.
C5_OneSource ==
    /\ [](lastCall.op = "push" =>
            \/ \A i \in 1..Len(lastCall.batch) : lastCall.batch[i].slot # 0
            \/ \A i \in 1..Len(lastCall.batch) : lastCall.batch[i].slot = 0)
    /\ [][PushCallStep =>
            /\ QueueYields =>
                 \A i \in 1..Len(lastCall'.batch) : lastCall'.batch[i].slot # 0
            /\ ~QueueYields =>
                 \A i \in 1..Len(lastCall'.batch) : lastCall'.batch[i].slot = 0]_vars

\* a batch of queue entries went out although a listed listing is unconfirmed
C5_Witness ==
    /\ lastCall.op = "push"
    /\ lastCall.batch # <<>>
    /\ lastCall.batch[1].slot # 0
    /\ \E l \in ListingIds : myListings[l] = "listed" /\ l \notin synced_listing_ids

---------------------------------------------------------------------------
(* C6 *)

\* identities the queue pass of this cycle marks before the scan runs
MarkedByInitialSync == IF initial_sync_done THEN {} ELSE QueueIds

\* what the claim says the scan builds
ExpectedFallback ==
    { Action("create", l, ItemName(l), 0) :
        l \in {x \in ListingIds : myListings[x] = "listed" /\ x \notin synced_listing_ids} }
    \cup
    { Action("cancel", l, "", 0) :
        l \in {x \in ListingIds :
                 /\ myListings[x] = "cancelled"
                 /\ x \in synced_listing_ids
                 /\ IdentityOf("cancel", x, 0)
                        \notin (pushed_action_ids \cup MarkedByInitialSync)} }

\* C6: a batch built by the myListings scan holds exactly one create per
\* listed listing that is not confirmed and one cancel per cancelled listing
\* that is confirmed and whose cancel identity is not in the seen-set; nothing
\* else, and nothing twice.
C6_FallbackBatch ==
    [][(PushCallStep /\ \A i \in 1..Len(lastCall'.batch) : lastCall'.batch[i].slot = 0) =>
          /\ Range(lastCall'.batch) = ExpectedFallback
          /\ Len(lastCall'.batch) = Cardinality(ExpectedFallback)]_vars

\* the scan built a create and a cancel in one batch, next to a sold listing
C6_Witness ==
    /\ lastCall.op = "push"
    /\ Len(lastCall.batch) = 2
    /\ lastCall.batch[1] = Action("create", "L1", "Sword", 0)
    /\ lastCall.batch[2] = Action("cancel", "L2", "", 0)

---------------------------------------------------------------------------
(* C7 *)

\* C7: after a push cycle whose call returned, whatever the statuses of the
\* response, every identity of the batch is in the seen-set and every listing
\* id of the batch is in the confirmed-remote set; so no action of a returned
\* batch is ever submitted again.
C7_SuccessCommits ==
    /\ [][PushOkStep =>
            \A i \in 1..Len(lastCall'.batch) :
                /\ ActionId(lastCall'.batch[i]) \in pushed_action_ids'
                /\ lastCall'.batch[i].id # "" =>
                       lastCall'.batch[i].id \in synced_listing_ids']_vars
    /\ [][PushCallStep =>
            \A i \in 1..Len(lastCall'.batch) :
                ActionId(lastCall'.batch[i]) \notin submitted]_vars

\* the part of C7 that holds: the commit itself, and that an action is not
\* submitted while its identity is seen and its listing id is confirmed
C7_CommitOnly ==
    /\ [][PushOkStep =>
            \A i \in 1..Len(lastCall'.batch) :
                /\ ActionId(lastCall'.batch[i]) \in pushed_action_ids'
                /\ lastCall'.batch[i].id # "" =>
                       lastCall'.batch[i].id \in synced_listing_ids']_vars
    /\ [][PushCallStep =>
            \A i \in 1..Len(lastCall'.batch) :
                ~ /\ ActionId(lastCall'.batch[i]) \in pushed_action_ids
                  /\ lastCall'.batch[i].id \in synced_listing_ids]_vars

---------------------------------------------------------------------------
(* C8 *)

---------------------------------------------------------------------------
(* C9 *)

\* the batch the next push cycle would build from the state after this step
NextBatch ==
    Candidates(queue', myListings', initial_sync_done', pushed_action_ids',
               synced_listing_ids').batch

\* C9: a push cycle whose call fails leaves the confirmed-remote set, the
\* mirror, the cursor, the queue and the pushes counter as they were, adds one
\* to the error counter, does not add the identities of the failed batch to
\* the seen-set, and the same actions are candidates at the next cycle.
C9_FailureFrame ==
    [][PushFailStep =>
          /\ synced_listing_ids' = synced_listing_ids
          /\ cached_listings' = cached_listings
          /\ last_sync_time' = last_sync_time
          /\ queue' = queue
          /\ stats'.pushes = stats.pushes
          /\ stats'.errors = stats.errors + 1
          /\ BatchIds(lastCall'.batch) \cap pushed_action_ids' \subseteq pushed_action_ids
          /\ NextBatch = lastCall'.batch]_vars

\* the part of C9 that holds: everything but the seen-set
C9_FrameButSeen ==
    [][PushFailStep =>
          /\ synced_listing_ids' = synced_listing_ids
          /\ cached_listings' = cached_listings
          /\ last_sync_time' = last_sync_time
          /\ queue' = queue
          /\ stats'.pushes = stats.pushes
          /\ stats'.errors = stats.errors + 1
          /\ NextBatch = lastCall'.batch]_vars

---------------------------------------------------------------------------
(* C10 *)

\* C10: a push cycle whose call fails leaves the seen-set equal to its value
\* at the start of the cycle.
C10_SeenUntouched ==
    [][PushFailStep => pushed_action_ids' = pushed_action_ids]_vars

\* C10 in the cycles after the initial sync only: the cancel_all entries
C10_SeenUntouchedAfterInit ==
    [][(PushFailStep /\ initial_sync_done) => pushed_action_ids' = pushed_action_ids]_vars

---------------------------------------------------------------------------
(* Steps of pull_incoming *)

PullOkStep == lastCall'.op = "pull" /\ lastCall'.ok /\ stats'.pulls = stats.pulls + 1
PullFailStep == lastCall'.op = "pull" /\ ~lastCall'.ok /\ stats'.errors = stats.errors + 1
PullStep == PullOkStep \/ PullFailStep

\* a pull that returned and kept the response of the service
PullAnswered == PullOkStep /\ lastResponse'.kind = "pull"

---------------------------------------------------------------------------
(* C11 *)

\* C11: a delta pull (is_full_sync false) with changed listings C and removed
\* ids R leaves the mirror M as: every listing of C stored under its id, every
\* id of R absent (also an id of C), every other entry of M as it was.
C11_DeltaMerge ==
    [][PullAnswered =>
          LET r == lastResponse'.body
          IN  ~r.is_full_sync =>
              /\ DOMAIN cached_listings' =
                    ((DOMAIN cached_listings) \cup (DOMAIN r.listings)) \ r.removed_ids
              /\ \A l \in DOMAIN cached_listings' :
                    IF l \in DOMAIN r.listings
                    THEN cached_listings'[l] = ListingToAddon(r.listings[l])
                    ELSE cached_listings'[l] = cached_listings[l]]_vars

\* two pulls, the second one a delta that changes L2 and removes L3: L1 is
\* still as the first pull stored it, L2 is as the second pull reports it, L3
\* is absent
C11_Witness ==
    /\ stats.pulls = 2 /\ stats.pushes = 0 /\ stats.errors = 0
    /\ lastResponse.kind = "pull"
    /\ ~lastResponse.body.is_full_sync
    /\ DOMAIN lastResponse.body.listings = {"L2"}
    /\ lastResponse.body.removed_ids = {"L3"}
    /\ lastCall.op = "pull" /\ lastCall.since = 1
    /\ last_sync_time = 2
    /\ DOMAIN cached_listings = {"L1", "L2"}
    /\ cached_listings["L1"] = AddonListing("L1", PriceAt(1))
    /\ cached_listings["L2"] = AddonListing("L2", PriceAt(2))
    /\ synced_listing_ids = {"L1", "L2"}

---------------------------------------------------------------------------
(* C12 *)

\* C12: after a pull whose response has the full-sync flag set, the ids of the
\* mirror are exactly the ids of the listings of the response, whatever the
\* mirror held before, and each is stored as the response reports it.
C12_FullSyncReplaces ==
    [][PullAnswered =>
          LET r == lastResponse'.body
          IN  r.is_full_sync =>
              /\ DOMAIN cached_listings' = DOMAIN r.listings
              /\ \A l \in DOMAIN r.listings :
                    cached_listings'[l] = ListingToAddon(r.listings[l])]_vars

\* a second pull was a full sync that did not list L1: L1 left the mirror but
\* is still confirmed-remote (a delta removal would have dropped it there too)
C12_Witness ==
    /\ stats.pulls = 2 /\ stats.pushes = 0 /\ stats.errors = 0
    /\ lastResponse.kind = "pull"
    /\ lastResponse.body.is_full_sync
    /\ DOMAIN lastResponse.body.listings = {"L2"}
    /\ lastCall.op = "pull" /\ lastCall.since = 1
    /\ last_sync_time = 2
    /\ DOMAIN cached_listings = {"L2"}
    /\ cached_listings["L2"] = AddonListing("L2", PriceAt(2))
    /\ "L1" \in synced_listing_ids

---------------------------------------------------------------------------
(* C13 *)

\* C13: after any pull that returned, delta or full sync, the mirror holds no
\* listing whose id is in the removed ids of the response - also when the id
\* is among the changed listings of the same response.
C13_RemovedAbsent ==
    [][PullAnswered =>
          (DOMAIN cached_listings') \cap lastResponse'.body.removed_ids = {}]_vars

\* the part of C13 that holds: delta pulls, and full syncs whose removed ids
\* are not among the listings of the response
C13_RemovedAbsentDelta ==
    [][PullAnswered =>
          LET r == lastResponse'.body
          IN  (~r.is_full_sync \/ r.removed_ids \cap DOMAIN r.listings = {})
                  => (DOMAIN cached_listings') \cap r.removed_ids = {}]_vars

---------------------------------------------------------------------------
(* C14 *)

\* C14: a pull made before any pull has returned sends no cursor; after each
\* pull that returned, full or delta, the stored cursor is the server_time of
\* that response; the cursor changes in no other step, and every pull sends
\* the stored cursor - so the next pull sends exactly the value last received.
C14_Cursor ==
    /\ [][(PullStep /\ stats.pulls = 0) => lastCall'.since = NoCursor]_vars
    /\ [][PullAnswered => last_sync_time' = lastResponse'.body.server_time]_vars
    /\ [][last_sync_time' # last_sync_time => PullOkStep]_vars
    /\ [][PullStep => lastCall'.since = last_sync_time]_vars

\* the second pull sent the cursor of the first and received another one,
\* after a pull that failed
C14_Witness ==
    /\ stats.pulls = 2
    /\ stats.pushes + stats.errors = 1
    /\ lastCall.op = "pull" /\ lastCall.ok
    /\ lastCall.since = 1
    /\ last_sync_time = 2

---------------------------------------------------------------------------
(* C15 *)

\* C15: a pull whose transport call fails leaves the mirror, the
\* confirmed-remote set, the cursor, the seen-set, the pulls counter and the
\* store (SavedVariables content and incoming artifact) as they were and adds
\* exactly one to the error counter; the next pull sends the cursor the
\* failed one sent.
C15_PullFailureFrame ==
    [][PullFailStep =>
          /\ cached_listings' = cached_listings
          /\ synced_listing_ids' = synced_listing_ids
          /\ last_sync_time' = last_sync_time
          /\ pushed_action_ids' = pushed_action_ids
          /\ stats'.pulls = stats.pulls
          /\ stats'.pushes = stats.pushes
          /\ stats'.errors = stats.errors + 1
          /\ queue' = queue /\ myListings' = myListings
          /\ artifact' = artifact
          /\ SinceParam(last_sync_time') = lastCall'.since]_vars

\* a pull failed on an engine that holds a cursor, a mirror and a seen-set
C15_Witness ==
    /\ lastCall.op = "pull" /\ ~lastCall.ok
    /\ lastCall.since = 1
    /\ last_sync_time = 1
    /\ pushed_action_ids # {}
    /\ DOMAIN cached_listings # {}
    /\ stats.errors = 1

---------------------------------------------------------------------------
(* C16 *)

\* the cancels of the batch of this step whose listing was confirmed-remote
\* and locally cancelled when the cycle started
CancelsSubmitted ==
    { lastCall'.batch[i].id :
        i \in { j \in 1..Len(lastCall'.batch) :
                  /\ lastCall'.batch[j].action = "cancel"
                  /\ lastCall'.batch[j].id \in synced_listing_ids
                  /\ myListings[lastCall'.batch[j].id] = "cancelled" } }

\* C16: a push cycle submits a cancel for a listing that is confirmed-remote
\* and locally cancelled (when the queue gives no action and the cancel was
\* not submitted before), and once that push returned the listing is absent
\* for the engine: its id is not in the confirmed-remote set any more.
C16_CancelMakesAbsent ==
    /\ [][(PushStep /\ initial_sync_done /\ ~QueueYields) =>
            \A l \in ListingIds :
                NeedsCancel(myListings[l], l, synced_listing_ids, pushed_action_ids)
                    => PushCallStep /\ l \in CancelsSubmitted]_vars
    /\ [][PushOkStep => CancelsSubmitted \cap synced_listing_ids' = {}]_vars

\* what the engine does: the cancel is submitted, and after the push returned
\* the listing is still confirmed-remote, its cancel identity is in the seen-set
C16_CancelStaysConfirmed ==
    /\ [][(PushStep /\ initial_sync_done /\ ~QueueYields) =>
            \A l \in ListingIds :
                NeedsCancel(myListings[l], l, synced_listing_ids, pushed_action_ids)
                    => PushCallStep /\ l \in CancelsSubmitted]_vars
    /\ [][PushOkStep =>
            /\ CancelsSubmitted \subseteq synced_listing_ids'
            /\ \A l \in CancelsSubmitted :
                  IdentityOf("cancel", l, 0) \in pushed_action_ids']_vars

---------------------------------------------------------------------------
(* Steps of push_outgoing with their response *)

\* a push cycle that kept the results the service returned
PushAnswered == PushOkStep /\ lastResponse'.kind = "push"

\* the positions of a response whose status is in `statuses`, in order
Positions(results, statuses) ==
    SelectSeq([i \in 1..Len(results) |-> i], LAMBDA i : results[i].status \in statuses)

\* the notifications the step wrote after the ones the store held
Appended(inc) ==
    SubSeq(artifact'.ah_notifications, Len(inc.ah_notifications) + 1,
           Len(artifact'.ah_notifications))

\* the incoming sections the store may hold whose notifications begin the
\* list of the artifact after the step
StoreBefore ==
    { inc \in SvIncomingChoices :
        /\ Len(artifact'.ah_notifications) >= Len(inc.ah_notifications)
        /\ SubSeq(artifact'.ah_notifications, 1, Len(inc.ah_notifications))
              = inc.ah_notifications }

---------------------------------------------------------------------------
(* C17 *)

\* C17: for each entry of a returned batch response whose status is
\* already_sold or purchase_failed, push writes exactly one notification of
\* type purchase_failed with the listing id of that entry and the item name
\* of the action at the same position of the batch; the notifications are
\* appended to the notification list of the incoming section read from the
\* store.
C17_AlreadySoldNotified ==
    [][PushAnswered =>
          LET results == lastResponse'.body
              sold == Positions(results, {"already_sold", "purchase_failed"})
          IN  sold # <<>> =>
                /\ StoreBefore # {}
                /\ \A inc \in StoreBefore :
                    LET rejected == SelectSeq(Appended(inc),
                                              LAMBDA n : n.reason = "already purchased")
                    IN
                        /\ Len(rejected) = Len(sold)
                        /\ \A k \in 1..Len(sold) :
                              /\ rejected[k].type = "purchase_failed"
                              /\ rejected[k].listing_id = results[sold[k]].id
                              /\ rejected[k].item_name =
                                    (IF lastCall'.batch[sold[k]].item # "" THEN lastCall'.batch[sold[k]].item
                                     ELSE "Unknown")]_vars

\* a queued purchase of the Shield was answered already_sold: the artifact
\* holds the store's notification followed by the purchase_failed one
C17_Witness ==
    /\ lastCall.op = "push" /\ lastCall.ok
    /\ lastResponse.kind = "push"
    /\ lastResponse.body[1].status = "already_sold"
    /\ Len(lastCall.batch) = 1
    /\ lastCall.batch[1].action = "purchase"
    /\ artifact.ah_notifications =
          << Notif("item_sold", "L2", "", "Shield"),
             Notif("purchase_failed", "L2", "already purchased", "Shield") >>

---------------------------------------------------------------------------
(* C18 *)

\* C18: for every entry of a returned batch response whose status is error,
\* whatever the kind of the action at that position (create, cancel or
\* purchase), push writes a failure notification with the item name of that
\* action and a reason into the notification list of the incoming artifact.
C18_ErrorNotified ==
    [][PushAnswered =>
          LET results == lastResponse'.body
              failed == Positions(results, {"error"})
          IN  failed # <<>> =>
                /\ StoreBefore # {}
                /\ \A inc \in StoreBefore :
                    LET errors == SelectSeq(Appended(inc), LAMBDA n : n.reason = "error")
                    IN
                        /\ Len(errors) = Len(failed)
                        /\ \A k \in 1..Len(failed) :
                              /\ errors[k].listing_id = results[failed[k]].id
                              /\ errors[k].item_name =
                                    (IF lastCall'.batch[failed[k]].item # "" THEN lastCall'.batch[failed[k]].item
                                     ELSE "Unknown")]_vars

\* the part of C18 that holds: the entries with status error that answer a
\* purchase
C18_PurchaseErrorNotified ==
    [][PushAnswered =>
          LET results == lastResponse'.body
              failed == SelectSeq(Positions(results, {"error"}),
                                  LAMBDA i : lastCall'.batch[i].action = "purchase")
          IN  failed # <<>> =>
                /\ StoreBefore # {}
                /\ \A inc \in StoreBefore :
                    LET errors == SelectSeq(Appended(inc), LAMBDA n : n.reason = "error")
                    IN
                        /\ Len(errors) = Len(failed)
                        /\ \A k \in 1..Len(failed) :
                              /\ errors[k].type = "purchase_failed"
                              /\ errors[k].listing_id = results[failed[k]].id
                              /\ errors[k].item_name =
                                    (IF lastCall'.batch[failed[k]].item # "" THEN lastCall'.batch[failed[k]].item
                                     ELSE "Unknown")]_vars

---------------------------------------------------------------------------
(* C19 *)

\* a step of check_notifications: it polled the service, or it wrote one of
\* the two fields only check_notifications writes
NotifStep ==
    \/ lastCall'.op = "notifications" /\ lastCall' # lastCall
    \/ last_notif_count' # last_notif_count
    \/ sale_alerts' # sale_alerts

---------------------------------------------------------------------------
(* C20 *)

\* the threads that are inside a call of push_outgoing, pull_incoming or
\* check_notifications on engine e
Inside(e) == {t \in 1..MaxThreads : threads[t].pc \in InCall /\ threads[t].on = e}

\* the sync threads that have been started and have not left their loop
LiveLoops == {t \in 1..MaxThreads : threads[t].pc \notin {"unborn", "dead"}}

\* C20: at any time at most one sync loop runs, and no two calls of
\* push_outgoing, pull_incoming or check_notifications are in progress on the
\* same engine - also across the restarts of account switch, add account and
\* remove account (stop flag, join of 3 s, engine replaced, new thread) and
\* across overlapping _auto_start timers.
C20_SingleActor ==
    /\ Cardinality(LiveLoops) <= 1
    /\ \A e \in 1..MaxEngines : Cardinality(Inside(e)) <= 1

\* the second half alone: no two calls in progress on one engine
C20_NoOverlap == \A e \in 1..MaxEngines : Cardinality(Inside(e)) <= 1

\* what holds: before the first restart or second start there is one loop
C20_SingleActorUntilRestart ==
    (switches = 0 /\ engines <= 1) => Cardinality(LiveLoops) <= 1

---------------------------------------------------------------------------
(* C21 *)

\* the thread t is inside its loop
Live(t) == threads[t].pc \notin {"unborn", "dead"}

\* C21: the stop flag is looked at between cycles only - a thread leaves its
\* loop only from the loop condition and with the flag down, and a thread that
\* finds the flag down there starts nothing more; once the flag is down and
\* stays down every thread finishes its cycle and terminates, also when the
\* cycle ended in an exception.
C21_StopSignal ==
    /\ [][\A t \in 1..MaxThreads :
            /\ (threads'[t].pc = "dead" /\ threads[t].pc # "dead")
                  => (threads[t].pc = "head" /\ ~running)
            /\ (threads[t].pc = "head" /\ ~running)
                  => threads'[t].pc \in {"head", "dead"}]_vars
    /\ \A t \in 1..MaxThreads : (~running /\ Live(t)) ~> (running \/ ~Live(t))

\* the window was closed while a sync thread was running, and the thread has
\* left its loop
C21_Witness ==
    /\ gui = "closed" /\ ~running
    /\ \E t \in 1..MaxThreads : threads[t].pc = "dead" /\ threads[t].initial_done

---------------------------------------------------------------------------
(* C22 *)

\* C22: identities are isolated - a sync loop started for one account never
\* runs push_outgoing, pull_incoming or check_notifications on the engine
\* that was constructed for another account.
C22_Isolated ==
    \A t \in 1..MaxThreads :
        threads[t].pc \in InCall => owner[threads[t].on] = threads[t].acct

\* what holds: until the user switches the account every call of a loop is
\* made on an engine of the loop's own account
C22_IsolatedUntilSwitch ==
    switches = 0 =>
        \A t \in 1..MaxThreads :
            threads[t].pc \in InCall => owner[threads[t].on] = threads[t].acct

\* a freshly constructed engine holds nothing: the state SyncEngine.__init__
\* leaves is the initial state of the engine specifications
C22_FreshEngine ==
    (stats.pushes = 0 /\ stats.pulls = 0 /\ stats.errors = 0 /\ ~firstPushDone) =>
        /\ cached_listings = EmptyMap
        /\ pushed_action_ids = {}
        /\ synced_listing_ids = {}
        /\ last_sync_time = NoCursor

---------------------------------------------------------------------------
(* Steps of _auto_start *)

\* a step in which _auto_start built an engine
BuiltStep == engines' = engines + 1

\* a step in which a sync thread is started
StartsThread ==
    \E t \in 1..MaxThreads : threads[t].pc = "unborn" /\ threads'[t].pc # "unborn"

---------------------------------------------------------------------------
(* C25 *)

\* C25: after a registration ended with the re-registration limit (409) the
\* client makes no further registration attempt on its own and starts no
\* sync loop, as long as the user does not restart the sync.
C25_NothingAfterLimit ==
    [][limited' => (limited => (registers' = registers /\ ~StartsThread))]_vars

\* what holds: the run of _auto_start that met the limit schedules no retry
\* and starts no thread, and with no other _auto_start pending nothing follows
C25_LimitSchedulesNothing ==
    [][/\ (BuiltStep /\ lastBoot'.outcome = "limit")
            => (timers' = timers - 1 /\ ~StartsThread /\ running' = running)
       /\ (limited /\ limited' /\ timers = 0)
            => (registers' = registers /\ ~StartsThread)]_vars

---------------------------------------------------------------------------
(* C26 *)

---------------------------------------------------------------------------
(* C27 *)

\* C27: register is called only when no credential is held; the credential a
\* successful register returns is stored in the configuration and set as the
\* header of the engine's session, where it stays for every later call; no
\* engine registers twice.
C27_RegisterOnce ==
    /\ [][/\ BuiltStep =>
               /\ lastBoot'.held => (~lastBoot'.called /\ registers'[engines'] = 0)
               /\ (lastBoot'.outcome = "started" /\ lastBoot'.called) =>
                     /\ api_key' = KeyOf(switches)
                     /\ session_key'[engines'] = api_key'
               /\ (lastBoot'.outcome = "started" /\ lastBoot'.held) =>
                     /\ api_key' # NoKey
                     /\ session_key'[engines'] = api_key'
           /\ \A e \in 1..engines : session_key'[e] = session_key[e]]_vars
    /\ [](\A e \in 1..MaxEngines : registers[e] <= 1)

\* an engine registered and its thread is inside a transport call with the
\* credential in the header, and an engine built over a held credential never
\* registered
C27_Witness ==
    /\ engines = 2
    /\ registers[1] = 1 /\ session_key[1] = KeyOf(0)
    /\ registers[2] = 0 /\ session_key[2] = KeyOf(1)
    /\ lastBoot.held /\ ~lastBoot.called
    /\ \E t \in 1..MaxThreads : threads[t].pc \in InCall /\ threads[t].on = 1

---------------------------------------------------------------------------
(* Steps of the loop of SyncEngine.run *)

\* a tick of the loop
TickStep == loop = "idle" /\ cycle' # cycle

\* the tick called read()
TickDecodes == TickStep /\ reads' = reads + 1

\* the tick started a push and pull cycle
TickSyncs == TickStep /\ loop' = "push"

---------------------------------------------------------------------------
(* C23 *)

\* C23: a tick that finds the store as it was when it was last read decodes
\* nothing and starts no cycle; a cycle is started only for a store whose
\* content changed since the last read and whose metadata has requestSync
\* true, and at most once for one modification of the store.
C23_SkipsUnchanged ==
    /\ [][/\ (TickStep /\ FileNow = read_file) => (~TickDecodes /\ ~TickSyncs)
          /\ TickSyncs => (Content # read_file.content /\ sv_file.requestSync)]_vars
    /\ [](\A m \in 1..(MaxWrites + 1) : syncs[m] <= 1)

\* what holds: the same for a file whose bytes are those of its decoded
\* text (line ends LF, valid UTF-8)
C23_SkipsUnchangedLF ==
    /\ [][~sv_file.crlf =>
            /\ (TickStep /\ FileNow = read_file) => (~TickDecodes /\ ~TickSyncs)
            /\ TickSyncs => (Content # read_file.content /\ sv_file.requestSync)]_vars
    /\ [](\A m \in 1..(MaxWrites + 1) : syncs[m] <= 1)

---------------------------------------------------------------------------
(* C24 *)

\* the push that just failed was the first call of the engine
FirstPushFailed ==
    /\ lastCall.op = "push" /\ ~lastCall.ok
    /\ stats.pushes = 0 /\ stats.pulls = 0 /\ stats.errors = 1

\* C24: a push that failed is attempted again on a later tick - with a
\* transport that succeeds from then on, every action of the failed batch is
\* submitted in the end, whether or not the store is written again.
C24_FailedPushRetried ==
    \A a \in {"create_L1"} :
        (FirstPushFailed /\ a \in BatchIds(lastCall.batch)) ~> (a \in submitted)

\* what holds: the batch is built again by the next cycle, which needs the
\* store to be written again with requestSync set
C24_RetriedInNextCycle ==
    [][(loop = "push" /\ loop' = "pull" /\ lastCall'.op = "push"
          /\ "L1" \notin synced_listing_ids /\ myListings["L1"] = "listed")
        => "create_L1" \in BatchIds(lastCall'.batch)]_vars

---------------------------------------------------------------------------
(* The mirror and the cursor belong to the pull *)

\* a pull cycle whose call returned the response lastResponse'.body
PullReturnStep == PullOkStep /\ lastResponse'.kind = "pull"

\* C29: a push cycle, whether its batch call returns or raises, leaves the
\* mirror and the sync cursor as they were, and so does every other step that
\* is not a pull that returned; after a pull that returned, every entry of the
\* mirror is the translation of the listing that pull reported under that id,
\* or the entry the mirror held before
C29_MirrorFromPull ==
    [][ /\ PushCallStep =>
             /\ cached_listings' = cached_listings
             /\ last_sync_time' = last_sync_time
        /\ stats'.pulls = stats.pulls =>
             /\ cached_listings' = cached_listings
             /\ last_sync_time' = last_sync_time
        /\ PullReturnStep =>
             \A l \in DOMAIN cached_listings' :
                IF l \in DOMAIN lastResponse'.body.listings
                THEN cached_listings'[l] = ListingToAddon(lastResponse'.body.listings[l])
                ELSE /\ l \in DOMAIN cached_listings
                     /\ cached_listings'[l] = cached_listings[l] ]_vars

\* a create for L1 was pushed and accepted, a pull then reported L1, and the
\* mirror holds L1 with the fields the service reported
C29_Witness ==
    /\ stats.pushes >= 1
    /\ "L1" \in synced_listing_ids
    /\ myListings["L1"] = "listed"
    /\ lastResponse.kind = "pull"
    /\ "L1" \in DOMAIN lastResponse.body.listings
    /\ "L1" \in DOMAIN cached_listings
    /\ cached_listings["L1"] = ListingToAddon(RemoteListing("L1", 10))

---------------------------------------------------------------------------
(* AH_IncomingData.lua on disk while write_incoming runs (client.py 350-351) *)

engineRest == <<storeVars, engineVars, artifact, transportVars, notifyVars, loopVars>>

\* the data write_incoming is handed: the mirror of a pull, empty or with L1
DataChoices ==
    { NoData,
      [ah_listings |-> [l \in {"L1"} |-> AddonListing("L1", 10)],
       ah_notifications |-> <<>>] }

\* "target.write_text(content, encoding='utf-8')" (351) opens the target with
\* mode "w": the file is truncated in place, under its own name.  n is the
\* "last_sync" time of the metadata (338)
WriteOpen(data) ==
    /\ writer.pc = "idle"
    /\ writer.n < MaxWrites
    /\ disk' = <<>>
    /\ writer' = [pc |-> "open", old |-> writer.new,
                  new |-> FileContent(data, writer.n + 1), n |-> writer.n + 1]
    /\ UNCHANGED <<observed, engineRest, guiVars, codecVars>>

\* the buffer of the open file is written through: the first k lines are on disk
WriteFlush(k) ==
    /\ writer.pc = "open"
    /\ Len(disk) < k
    /\ k < Len(writer.new)
    /\ disk' = SubSeq(writer.new, 1, k)
    /\ UNCHANGED <<writer, observed, engineRest, guiVars, codecVars>>

\* write_text returns: the rest is flushed and the file closed
WriteClose ==
    /\ writer.pc = "open"
    /\ disk' = writer.new
    /\ writer' = [writer EXCEPT !.pc = "idle"]
    /\ UNCHANGED <<observed, engineRest, guiVars, codecVars>>

\* the game loads the file ("ESO reloads this file on /reloadui", 332)
GameLoads ==
    /\ observed' = disk
    /\ UNCHANGED <<disk, writer, engineRest, guiVars, codecVars>>

NextFile ==
    \/ \E data \in DataChoices : WriteOpen(data)
    \/ \E k \in 1..(Len(writer.new) - 1) : WriteFlush(k)
    \/ WriteClose
    \/ GameLoads

FileSpec == Init /\ [][NextFile]_vars

---------------------------------------------------------------------------
(* Atomicity of the artifact write *)

\* a load that found something else than the load before
LoadStep == observed' # observed

\* C28: whatever the game loads while write_incoming runs is the complete
\* content the file had before the write or the complete content being
\* written, never an empty or partly written file
C28_AtomicWrite ==
    [][LoadStep => observed' \in {writer.old, writer.new}]_vars

\* what does hold: a load made while no write is in progress finds the
\* complete content of the latest write
C28_CompleteWhenIdle ==
    [][LoadStep /\ writer.pc = "idle" => observed' = writer.new]_vars

---------------------------------------------------------------------------
(* The SavedVariables codec: SavedVarsManager._python_to_lua (client.py
   362-396).  A text is the sequence of its characters *)

DQ == "\""
BS == "\\"
NL == "\n"
TAB == "\t"
CR == "\r"

\* str(n) of an int that is not negative, as characters
DigitChars(n) == [j \in 1..Len(Digits(n)) |-> DigitChar(Digits(n)[j])]

\* the six decimals of f"{obj:.6f}"
SixDigits(m) ==
    << DigitChar((m \div 100000) % 10), DigitChar((m \div 10000) % 10),
       DigitChar((m \div 1000) % 10), DigitChar((m \div 100) % 10),
       DigitChar((m \div 10) % 10), DigitChar(m % 10) >>

\* f"{obj:.6f}" (374) of the float u * 10^-7: rounded to the millionth
FormatFloat(u) ==
    LET m == (u + 5) \div 10
    IN  DigitChars(m \div 1000000) \o <<".">> \o SixDigits(m % 1000000)

\* obj.replace("\\", "\\\\").replace('"', '\\"').replace("\n", "\\n") (376)
RECURSIVE Escaped(_)
Escaped(chars) ==
    IF chars = <<>> THEN <<>>
    ELSE (CASE Head(chars) = BS -> <<BS, BS>>
            [] Head(chars) = DQ -> <<BS, DQ>>
            [] Head(chars) = NL -> <<BS, "n">>
            [] OTHER -> <<Head(chars)>>) \o Escaped(Tail(chars))

\* "\t" * n
Pad(n) == [j \in 1..n |-> TAB]

\* "[{key}] = " for an int key, '["{key}"] = ' for any other (390-393); the
\* key is written as it is, without escapes
KeyPrefix(key) ==
    IF key.t = "int" THEN <<"[">> \o DigitChars(key.i) \o <<"]", " ", "=", " ">>
    ELSE <<"[", DQ>> \o key.s \o <<DQ, "]", " ", "=", " ">>

\* "\n".join(items)
RECURSIVE JoinLines(_)
JoinLines(items) ==
    IF items = <<>> THEN <<>>
    ELSE IF Len(items) = 1 THEN items[1]
    ELSE items[1] \o <<NL>> \o JoinLines(Tail(items))

RECURSIVE PythonToLua(_, _)
PythonToLua(obj, indent) ==
    CASE obj.k = "nil" -> <<"n", "i", "l">>
      [] obj.k = "bool" -> IF obj.b THEN <<"t", "r", "u", "e">>
                           ELSE <<"f", "a", "l", "s", "e">>
      [] obj.k = "int" -> DigitChars(obj.i)
      [] obj.k = "float" -> FormatFloat(obj.i)
      [] obj.k = "str" -> <<DQ>> \o Escaped(obj.s) \o <<DQ>>
      [] obj.k = "list" ->
           IF obj.c = <<>> THEN <<"{", "}">>
           ELSE LET items == [j \in 1..Len(obj.c) |->
                                 Pad(indent + 1)
                                 \o PythonToLua(obj.c[j].val, indent + 1) \o <<",">>]
                IN  <<"{", NL>> \o JoinLines(items) \o <<NL>> \o Pad(indent) \o <<"}">>
      [] OTHER ->
           IF obj.c = <<>> THEN <<"{", "}">>
           ELSE LET items == [j \in 1..Len(obj.c) |->
                                 Pad(indent + 1) \o KeyPrefix(obj.c[j].key)
                                 \o PythonToLua(obj.c[j].val, indent + 1) \o <<",">>]
                IN  <<"{", NL>> \o JoinLines(items) \o <<NL>> \o Pad(indent) \o <<"}">>

---------------------------------------------------------------------------
(* The SavedVariables codec: SavedVarsManager._parse_lua_table,
   _extract_table, _lua_to_python, _parse_value (client.py 184-328).
   Positions count from 1; Len(s) + 1 is the end of the text *)

Whitespace == {" ", TAB, NL, CR}
DigitSet == {"0", "1", "2", "3", "4", "5", "6", "7", "8", "9"}

\* the characters of \w that the texts of this model hold
WordChars ==
    DigitSet \cup {"_", "N", "S", "V", "a", "b", "d", "e", "f", "i", "k", "l",
                   "m", "n", "r", "s", "t", "u", "v"}

\* self.sv_name
SvName == <<"N", "a", "m", "e">>

\* s[a - 1 : b] of Python, empty when b < a
Slice(s, a, b) == IF b < a THEN <<>> ELSE SubSeq(s, a, b)

\* "while i < len(s) and s[i] in set: i += 1"
RECURSIVE SkipIn(_, _, _)
SkipIn(s, p, set) ==
    IF p <= Len(s) /\ s[p] \in set THEN SkipIn(s, p + 1, set) ELSE p

\* "while end < len(s) and s[end] not in set: end += 1"
RECURSIVE SkipUntil(_, _, _)
SkipUntil(s, p, set) ==
    IF p <= Len(s) /\ s[p] \notin set THEN SkipUntil(s, p + 1, set) ELSE p

\* s.find(ch, p): the first position from p on that holds ch, 0 for -1
RECURSIVE Find(_, _, _)
Find(s, p, ch) ==
    IF p > Len(s) THEN 0 ELSE IF s[p] = ch THEN p ELSE Find(s, p + 1, ch)

\* s.strip(chars)
RECURSIVE StripRight(_, _)
StripRight(s, set) ==
    IF s # <<>> /\ s[Len(s)] \in set THEN StripRight(SubSeq(s, 1, Len(s) - 1), set)
    ELSE s

StripChars(s, set) ==
    LET p == SkipIn(s, 1, set) IN StripRight(Slice(s, p, Len(s)), set)

\* whether s holds the characters w from position p on
HasAt(s, p, w) == p + Len(w) - 1 <= Len(s) /\ SubSeq(s, p, p + Len(w) - 1) = w

\* int(chars) succeeds: the texts of this model hold no sign and no underscore
\* between digits
IsInt(chars) == chars # <<>> /\ \A j \in 1..Len(chars) : chars[j] \in DigitSet

DigitValue(ch) ==
    CASE ch = "0" -> 0 [] ch = "1" -> 1 [] ch = "2" -> 2 [] ch = "3" -> 3
      [] ch = "4" -> 4 [] ch = "5" -> 5 [] ch = "6" -> 6 [] ch = "7" -> 7
      [] ch = "8" -> 8 [] OTHER -> 9

RECURSIVE ToInt(_)
ToInt(chars) ==
    IF chars = <<>> THEN 0
    ELSE 10 * ToInt(SubSeq(chars, 1, Len(chars) - 1)) + DigitValue(chars[Len(chars)])

\* float(chars) succeeds: digits around one point, as FormatFloat writes them
\* (the texts of this model hold no exponent, "inf" or "nan" token)
IsFloat(chars) ==
    LET dot == Find(chars, 1, ".")
    IN  /\ dot # 0
        /\ Len(chars) > 1
        /\ \A j \in 1..Len(chars) : j # dot => chars[j] \in DigitSet

\* float(chars) in units of 10^-7
ToFloat(chars) ==
    LET dot == Find(chars, 1, ".")
        frac == Slice(chars, dot + 1, Len(chars))
        seven == [j \in 1..7 |-> IF j <= Len(frac) THEN frac[j] ELSE "0"]
    IN  ToInt(Slice(chars, 1, dot - 1)) * 10000000 + ToInt(seven)

\* _extract_table (217-229): the position of the brace that closes the table
\* opened at `start`, or the end of the text; braces are counted wherever they
\* stand
RECURSIVE TableEnd(_, _, _)
TableEnd(s, p, depth) ==
    IF p > Len(s) THEN Len(s)
    ELSE IF s[p] = "{" THEN TableEnd(s, p + 1, depth + 1)
    ELSE IF s[p] = "}"
    THEN IF depth = 1 THEN p ELSE TableEnd(s, p + 1, depth - 1)
    ELSE TableEnd(s, p + 1, depth)

\* the scan of a string literal (293-301): the position of the closing quote,
\* 0 when the text ends before it
RECURSIVE StringEnd(_, _)
StringEnd(s, p) ==
    IF p > Len(s) THEN 0
    ELSE IF s[p] = BS /\ p + 1 <= Len(s) THEN StringEnd(s, p + 2)
    ELSE IF s[p] = DQ THEN p
    ELSE StringEnd(s, p + 1)

\* "result[key] = value": the value of a key already there is replaced
Put(result, key, val) ==
    IF \E j \in 1..Len(result) : result[j].key = key
    THEN [j \in 1..Len(result) |->
             IF result[j].key = key THEN DictEntry(key, val) ELSE result[j]]
    ELSE Append(result, DictEntry(key, val))

\* the token of the number branch (317-328): int, then float, then the raw text
NumberValue(tok) ==
    IF IsInt(tok) THEN IntValue(ToInt(tok))
    ELSE IF IsFloat(tok) THEN FloatValue(ToFloat(tok))
    ELSE StrValue(tok)

RECURSIVE LuaToPython(_), ParseEntries(_, _, _), ParseValue(_, _)

\* _parse_value (284-328): the value at position p and the position after it.
\* A string literal is returned as the characters between its quotes
ParseValue(s, p) ==
    LET i == SkipIn(s, p, Whitespace)
    IN
    IF i > Len(s) THEN [val |-> NoneValue, next |-> i]
    ELSE IF s[i] = DQ
    THEN LET end == StringEnd(s, i + 1)
         IN  IF end = 0
             THEN [val |-> StrValue(Slice(s, i + 1, Len(s))), next |-> Len(s) + 1]
             ELSE [val |-> StrValue(Slice(s, i + 1, end - 1)), next |-> end + 1]
    ELSE IF s[i] = "{"
    THEN LET end == TableEnd(s, i, 0)
         IN  [val |-> LuaToPython(SubSeq(s, i, end)), next |-> end + 1]
    ELSE IF HasAt(s, i, <<"t", "r", "u", "e">>)
    THEN [val |-> BoolValue(TRUE), next |-> i + 4]
    ELSE IF HasAt(s, i, <<"f", "a", "l", "s", "e">>)
    THEN [val |-> BoolValue(FALSE), next |-> i + 5]
    ELSE IF HasAt(s, i, <<"n", "i", "l">>)
    THEN [val |-> NoneValue, next |-> i + 3]
    ELSE LET end == SkipUntil(s, i, Whitespace \cup {",", "}", "]"})
         IN  [val |-> NumberValue(Slice(s, i, end - 1)), next |-> end]

\* the loop of _lua_to_python (240-282) from position p on, `result` being the
\* dict built so far
ParseEntries(s, p, result) ==
    LET i == SkipIn(s, p, Whitespace \cup {","})
    IN
    IF i > Len(s) THEN result
    ELSE IF HasAt(s, i, <<"-", "-">>)
    THEN \* a comment: skipped up to the end of its line
         ParseEntries(s, SkipUntil(s, i, {NL}), result)
    ELSE IF s[i] = "["
    THEN LET key_end == Find(s, i, "]")
         IN  IF key_end = 0 THEN result
             ELSE LET key_str ==
                          StripChars(StripChars(StripChars(Slice(s, i + 1, key_end - 1),
                                                           Whitespace), {DQ}), {"'"})
                      pv == ParseValue(s, SkipIn(s, key_end + 1, Whitespace \cup {"="}))
                      key == IF IsInt(key_str) THEN IntKey(ToInt(key_str))
                             ELSE StrKey(key_str)
                  IN  ParseEntries(s, pv.next, Put(result, key, pv.val))
    ELSE \* a bare identifier: everything up to the next "="
         LET eq_pos == Find(s, i, "=")
         IN  IF eq_pos = 0 THEN result
             ELSE LET key == StrKey(StripChars(Slice(s, i, eq_pos - 1), Whitespace))
                      pv == ParseValue(s, SkipIn(s, eq_pos + 1, Whitespace))
                  IN  ParseEntries(s, pv.next, Put(result, key, pv.val))

\* _lua_to_python (231-282): always a dict
LuaToPython(lua_str) ==
    LET stripped == StripChars(lua_str, Whitespace)
        inner == IF /\ stripped # <<>>
                    /\ stripped[1] = "{"
                    /\ stripped[Len(stripped)] = "}"
                 THEN Slice(stripped, 2, Len(stripped) - 1)
                 ELSE stripped
    IN  DictValue(ParseEntries(inner, 1, <<>>))

\* re.search of one of the patterns (190-194) anchored at position p: the
\* position after the match, 0 when it does not match there.  tail is the part
\* after the name: 1 nothing, 2 "_SavedVariables", 3 \w*
MatchAt(s, p, tail) ==
    IF ~HasAt(s, p, SvName) THEN 0
    ELSE LET a == p + Len(SvName)
             suffix == <<"_", "S", "a", "v", "e", "d", "V", "a", "r", "i", "a", "b",
                         "l", "e", "s">>
             b == CASE tail = 1 -> a
                    [] tail = 2 -> IF HasAt(s, a, suffix) THEN a + Len(suffix) ELSE 0
                    [] OTHER -> SkipIn(s, a, WordChars)
             c == SkipIn(s, b, Whitespace)
         IN  IF b = 0 \/ c > Len(s) \/ s[c] # "=" THEN 0
             ELSE SkipIn(s, c + 1, Whitespace)

\* re.search(pat, content): the end of the leftmost match, 0 for None
RECURSIVE Search(_, _, _)
Search(s, p, tail) ==
    IF p > Len(s) THEN 0
    ELSE IF MatchAt(s, p, tail) # 0 THEN MatchAt(s, p, tail)
    ELSE Search(s, p + 1, tail)

\* _parse_lua_table (184-215): the table after the first assignment that one
\* of the patterns finds, the empty dict when there is none
\* "start = content.find("{", match.end())" (204), 0 when no pattern matches
\* or no brace follows
TableStart(content) ==
    LET match_end == IF Search(content, 1, 1) # 0 THEN Search(content, 1, 1)
                     ELSE IF Search(content, 1, 2) # 0 THEN Search(content, 1, 2)
                     ELSE Search(content, 1, 3)
    IN  IF match_end = 0 THEN 0 ELSE Find(content, match_end, "{")

\* "table_str = self._extract_table(content, start)" (209)
ExtractTable(content, start) == SubSeq(content, start, TableEnd(content, start, 0))

\* The tables nested in a decoded value, itself included: the depth that the
\* recursion of _parse_value (303-306) into _lua_to_python reached to build it
\* (a table that a later entry of the same key replaced is not counted)
RECURSIVE Nesting(_)
Nesting(v) ==
    IF v.k # "dict" THEN 0
    ELSE LET inner == {Nesting(v.c[j].val) : j \in 1..Len(v.c)}
         IN  1 + (IF inner = {} THEN 0
                  ELSE CHOOSE d \in inner : \A x \in inner : x <= d)

\* the parse of table_str ends in a RecursionError
Raises(table_str) == Nesting(LuaToPython(table_str)) > RecursionLimit

\* a parser that returns what it had built when the error came
ResultOnError_Partial(built) == built

\* "except Exception as e: log.error(...)" (211-212): `result` is still the
\* empty dict of line 186
ResultOnError(built) == DictValue(<<>>)

ParseLuaTable(content) ==
    LET start == TableStart(content)
    IN  IF start = 0 THEN DictValue(<<>>)
        ELSE IF Raises(ExtractTable(content, start))
        THEN ResultOnError(LuaToPython(ExtractTable(content, start)))
        ELSE LuaToPython(ExtractTable(content, start))

---------------------------------------------------------------------------
(* Values written with _python_to_lua and read back with _parse_lua_table *)

\* the scalars of the value trees: None, the bools, ints, the floats 1.5 and
\* 0.0000001, and strings, three of them with a character that is escaped
Scalars ==
    { NoneValue, BoolValue(TRUE), BoolValue(FALSE),
      IntValue(0), IntValue(7), IntValue(12),
      FloatValue(15000000), FloatValue(1),
      StrValue(<<>>), StrValue(<<"a", "b">>),
      StrValue(<<"a", DQ, "b">>), StrValue(<<"a", BS, "b">>),
      StrValue(<<"a", NL, "b">>), StrValue(<<"a", "{", "b">>) }

\* the keys of the dicts: an int, a name, and a string of digits
DictKeys == { IntKey(1), StrKey(<<"k">>), StrKey(<<"1">>) }

\* the tables of scalars: dicts of one or two entries, lists of one item, the
\* empty dict and the empty list
FlatTables ==
    { DictValue(<<DictEntry(k, x)>>) : k \in DictKeys, x \in Scalars }
    \cup { ListValue(<<x>>) : x \in Scalars }
    \cup { DictValue(<<DictEntry(IntKey(1), IntValue(7)), DictEntry(k, BoolValue(TRUE))>>) :
              k \in DictKeys \ {IntKey(1)} }
    \cup { DictValue(<<>>), ListValue(<<>>) }

\* the value trees that are encoded: the flat tables, and each of them as the
\* one entry of a dict or the one item of a list
Trees ==
    FlatTables
    \cup { DictValue(<<DictEntry(StrKey(<<"k">>), t)>>) : t \in FlatTables }
    \cup { ListValue(<<t>>) : t \in FlatTables }

\* the text 'Name = ' + _python_to_lua(v) is produced
WriteValue(v) ==
    /\ codec' = [pc |-> "encoded", v |-> v, table |-> <<>>,
                 text |-> SvName \o <<" ", "=", " ">> \o PythonToLua(v, 1),
                 back |-> NoneValue]
    /\ UNCHANGED <<engineRest, guiVars, fileVars>>

\* the text is parsed with _parse_lua_table
ReadBack ==
    /\ codec.pc = "encoded"
    /\ codec' = [codec EXCEPT !.pc = "decoded", !.back = ParseLuaTable(codec.text)]
    /\ UNCHANGED <<engineRest, guiVars, fileVars>>

NextCodec ==
    \/ \E v \in Trees : WriteValue(v)
    \/ ReadBack

CodecSpec == Init /\ [][NextCodec]_vars

---------------------------------------------------------------------------
(* Round trip of the codec *)

\* C30: for every value tree of the supported kinds, the value decoded from
\* 'Name = ' + Encode(v) equals v
C30_RoundTrip == codec.pc = "decoded" => codec.back = codec.v

\* a string that the encoder writes without an escape and that holds no brace
PlainChars(chars) == \A j \in 1..Len(chars) : chars[j] \notin {BS, DQ, NL, "{", "}"}

\* a tree of dicts only, whose string keys are not numerals, whose strings need
\* no escape and hold no brace, and whose floats have no more than six decimals
RECURSIVE Plain(_)
Plain(v) ==
    CASE v.k = "str" -> PlainChars(v.s)
      [] v.k = "float" -> v.i % 10 = 0
      [] v.k = "list" -> FALSE
      [] v.k = "dict" ->
           \A j \in 1..Len(v.c) :
              /\ v.c[j].key.t = "str" => ~IsInt(v.c[j].key.s)
              /\ Plain(v.c[j].val)
      [] OTHER -> TRUE

\* what does hold: such a tree is decoded to itself
C30_RoundTripPlain ==
    codec.pc = "decoded" /\ Plain(codec.v) => codec.back = codec.v

\* a nested plain dict has made the round trip
C30_PlainWitness ==
    /\ codec.pc = "decoded"
    /\ codec.v = DictValue(<<DictEntry(StrKey(<<"k">>),
                     DictValue(<<DictEntry(IntKey(1), StrValue(<<"a", "b">>))>>))>>)
    /\ codec.back = codec.v

---------------------------------------------------------------------------
(* Texts read with _parse_lua_table: whole files and files cut short *)

\* Name = { ["a"] = 1, ["b"] = { 2, 3 } }
PositionalText ==
    << "N", "a", "m", "e", " ", "=", " ", "{", " ", "[", DQ, "a", DQ, "]", " ", "=",
       " ", "1", ",", " ", "[", DQ, "b", DQ, "]", " ", "=", " ", "{", " ", "2", ",",
       " ", "3", " ", "}", " ", "}" >>

\* Name = { ["k"] = "a}b", ["j"] = 7 }: a closing brace inside a string
BraceText ==
    << "N", "a", "m", "e", " ", "=", " ", "{", " ", "[", DQ, "k", DQ, "]", " ", "=",
       " ", DQ, "a", "}", "b", DQ, ",", " ", "[", DQ, "j", DQ, "]", " ", "=", " ", "7",
       " ", "}" >>

\* five tables, each the one entry of the table around it
DeepText ==
    << "N", "a", "m", "e", "=", "{", "[", DQ, "a", DQ, "]", "=", "{", "[", DQ, "a", DQ,
       "]", "=", "{", "[", DQ, "a", DQ, "]", "=", "{", "[", DQ, "a", DQ, "]", "=", "{",
       "[", DQ, "a", DQ, "]", "=", "1", "}", "}", "}", "}", "}" >>

\* the name with the suffix of the second pattern, and an escaped quote
SuffixText ==
    << "N", "a", "m", "e", "_", "S", "a", "v", "e", "d", "V", "a", "r", "i", "a", "b",
       "l", "e", "s", " ", "=", " ", "{", " ", "[", "1", "]", " ", "=", " ", DQ, "a",
       BS, DQ, "b", DQ, " ", "}" >>

\* an assignment to another name
OtherText ==
    << "O", "t", "h", "e", "r", " ", "=", " ", "{", " ", "[", "1", "]", " ", "=", " ",
       "7", " ", "}" >>

\* Name = { ["b"] = { 2, ..., n + 1 } }: a nested table of n values without keys
RECURSIVE KeylessItems(_)
KeylessItems(n) ==
    IF n = 0 THEN <<>>
    ELSE KeylessItems(n - 1) \o (IF n = 1 THEN <<>> ELSE <<",", " ">>) \o DigitChars(n + 1)

KeylessText(n) ==
    SvName \o <<" ", "=", " ", "{", " ", "[", DQ, "b", DQ, "]", " ", "=", " ", "{", " ">>
    \o KeylessItems(n) \o <<" ", "}", " ", "}">>

\* every text cut after any number of characters
Prefixes(t) == {SubSeq(t, 1, n) : n \in 0..Len(t)}

Texts ==
    Prefixes(PositionalText) \cup Prefixes(BraceText) \cup Prefixes(DeepText)
    \cup Prefixes(SuffixText) \cup Prefixes(OtherText)
    \cup {KeylessText(n) : n \in 1..3}

\* SavedVarsManager.read hands the content of the file to _parse_lua_table
\* (179-182)
DecodeText(t) ==
    /\ codec' = [pc |-> "parsed", v |-> NoneValue, text |-> t,
                 table |-> IF TableStart(t) = 0 THEN <<>>
                           ELSE ExtractTable(t, TableStart(t)),
                 back |-> ParseLuaTable(t)]
    /\ UNCHANGED <<engineRest, guiVars, fileVars>>

NextParse == \E t \in Texts : DecodeText(t)

ParseSpec == Init /\ [][NextParse]_vars

---------------------------------------------------------------------------
(* Positional entries *)

\* the value under the string key `name` of a decoded dict, NoneValue when it
\* has none
Lookup(d, name) ==
    IF \E j \in 1..Len(d.c) : d.c[j].key = StrKey(name)
    THEN d.c[CHOOSE j \in 1..Len(d.c) : d.c[j].key = StrKey(name)].val
    ELSE NoneValue

\* the n values 2, ..., n + 1 as an array, and as a table with the keys 1..n
ArrayOf(n) == ListValue([j \in 1..n |-> IntValue(j + 1)])
IndexedOf(n) == DictValue([j \in 1..n |-> DictEntry(IntKey(j), IntValue(j + 1))])

\* C31: decoding Name = { ["a"] = 1, ["b"] = { 2, 3 } } gives a map whose key
\* a is the integer 1 and whose key b is the array [2, 3]; a nested table of n
\* values without keys is decoded to n elements at the indices 1..n
C31_PositionalArray ==
    /\ codec.pc = "parsed" /\ codec.text = PositionalText =>
          /\ Lookup(codec.back, <<"a">>) = IntValue(1)
          /\ Lookup(codec.back, <<"b">>) \in {ArrayOf(2), IndexedOf(2)}
    /\ \A n \in 1..3 :
          codec.pc = "parsed" /\ codec.text = KeylessText(n) =>
             Lookup(codec.back, <<"b">>) \in {ArrayOf(n), IndexedOf(n)}

\* what does hold: the entries with a key are decoded, a = 1 among them, and
\* the nested table without keys is decoded to the empty dict
C31_KeylessIsEmpty ==
    /\ codec.pc = "parsed" /\ codec.text = PositionalText =>
          codec.back = DictValue(<<DictEntry(StrKey(<<"a">>), IntValue(1)),
                                   DictEntry(StrKey(<<"b">>), DictValue(<<>>))>>)
    /\ \A n \in 1..3 :
          codec.pc = "parsed" /\ codec.text = KeylessText(n) =>
             Lookup(codec.back, <<"b">>) = DictValue(<<>>)

---------------------------------------------------------------------------
(* Decoding is total *)

\* C32: for every text, whole or cut short, with or without a matching
\* assignment, _parse_lua_table returns a dict; it returns the empty dict when
\* no assignment with a table is found, and when the parse ends in an error
\* it returns the empty dict, not the error and not what was built
C32_DecodeTotal ==
    codec.pc = "parsed" =>
       /\ codec.back.k = "dict"
       /\ TableStart(codec.text) = 0 => codec.back = DictValue(<<>>)
       /\ TableStart(codec.text) # 0 /\ Raises(codec.table) =>
             codec.back = DictValue(<<>>)

\* the five nested tables were read, the parse ended in an error, and the
\* result is the empty dict
C32_Witness ==
    /\ codec.pc = "parsed"
    /\ codec.text = DeepText
    /\ Raises(codec.table)
    /\ LuaToPython(codec.table) # DictValue(<<>>)
    /\ codec.back = DictValue(<<>>)

---------------------------------------------------------------------------
(* Table extraction *)

\* The brace that closes the table opened at p, braces inside string literals
\* not counted; 0 when the text ends first.  lit: p is inside a string literal
RECURSIVE MatchingBrace(_, _, _, _)
MatchingBrace(s, p, depth, lit) ==
    IF p > Len(s) THEN 0
    ELSE IF lit
    THEN IF s[p] = BS THEN MatchingBrace(s, p + 2, depth, TRUE)
         ELSE MatchingBrace(s, p + 1, depth, s[p] # DQ)
    ELSE IF s[p] = DQ THEN MatchingBrace(s, p + 1, depth, TRUE)
    ELSE IF s[p] = "{" THEN MatchingBrace(s, p + 1, depth + 1, FALSE)
    ELSE IF s[p] = "}"
    THEN IF depth = 1 THEN p ELSE MatchingBrace(s, p + 1, depth - 1, FALSE)
    ELSE MatchingBrace(s, p + 1, depth, FALSE)

\* the text from the opening brace at `start` to its matching brace, or to the
\* end of the text when there is none
BalancedTable(s, start) ==
    IF MatchingBrace(s, start, 0, FALSE) = 0 THEN SubSeq(s, start, Len(s))
    ELSE SubSeq(s, start, MatchingBrace(s, start, 0, FALSE))

\* C33: _extract_table returns the text from the opening brace up to and
\* including the closing brace that matches it, braces inside quoted strings
\* not changing the depth, and the whole rest of the text when the table is
\* not terminated
C33_ExtractBalanced ==
    codec.pc = "parsed" /\ TableStart(codec.text) # 0 =>
       codec.table = BalancedTable(codec.text, TableStart(codec.text))

\* what does hold: the same for the texts without a brace in a string
C33_ExtractNoStringBrace ==
    /\ codec.pc = "parsed"
    /\ TableStart(codec.text) # 0
    /\ \A n \in 0..Len(BraceText) : codec.text # SubSeq(BraceText, 1, n)
    => codec.table = BalancedTable(codec.text, TableStart(codec.text))

---------------------------------------------------------------------------
(* The batch built from a long queue *)

\* the batch last handed to sync_push holds no identity twice
NoRepeatedIdentity(batch) ==
    \A i, j \in 1..Len(batch) : i < j => ActionId(batch[i]) # ActionId(batch[j])

\* C34: no submitted batch holds two actions of the same action identity, also
\* when the queue holds two slots with the same action kind and listing id
C34_NoDuplicateInBatch ==
    lastCall.op = "push" => NoRepeatedIdentity(lastCall.batch)

\* what does hold: a queue whose slots all differ in identity gives a batch
\* without a repeated identity
C34_DistinctQueue ==
    /\ lastCall.op = "push"
    /\ \A i, j \in 1..Len(queue) :
          i < j => IdentityOf(queue[i].action, queue[i].id, i)
                   # IdentityOf(queue[j].action, queue[j].id, j)
    => NoRepeatedIdentity(lastCall.batch)

\* the queue-derived actions of the batch stand in ascending order of slot
SlotsAscend(batch) ==
    \A i, j \in 1..Len(batch) :
       i < j /\ batch[i].slot > 0 /\ batch[j].slot > 0 => batch[i].slot < batch[j].slot

\* C35: the queue-derived actions of a batch stand in ascending numeric order
\* of their slot keys, the order in which they were queued, also for ten
\* slots and more
C35_QueueOrder == lastCall.op = "push" => SlotsAscend(lastCall.batch)

\* what does hold: the same for queues of up to nine slots
C35_QueueOrderUpToNine ==
    lastCall.op = "push" /\ Len(queue) <= 9 => SlotsAscend(lastCall.batch)

---------------------------------------------------------------------------
(* The incoming artifact across push and pull *)

\* C36: a failure notification that push merged into the notification list of
\* the incoming artifact is still in the artifact after the write-back of the
\* pull that follows
C36_PushNotificationsKept ==
    [][PullOkStep =>
          \A j \in 1..Len(artifact.ah_notifications) :
             artifact.ah_notifications[j].type = "purchase_failed" =>
                artifact.ah_notifications[j] \in Range(artifact'.ah_notifications)]_vars

\* what does hold: the write-back of a pull holds the notifications of its own
\* response and no other
C36_PullWritesItsOwn ==
    [][PullReturnStep =>
          artifact'.ah_notifications = lastResponse'.body.notifications]_vars

\* C37: after every write of the incoming artifact, by a pull or by the
\* failure-notification path of a push, the ah_listings section has exactly
\* the ids of the mirror
C37_WriteCarriesMirror ==
    [][artifact' # artifact =>
          DOMAIN artifact'.ah_listings = DOMAIN cached_listings']_vars

\* what does hold: the write-back of a pull carries the mirror, entry by entry
C37_PullCarriesMirror ==
    [][PullOkStep => artifact'.ah_listings = cached_listings']_vars

---------------------------------------------------------------------------
(* The mirror, the confirmed-remote set and the listings_synced counter *)

\* C38: between operations every listing id of the mirror is in the
\* confirmed-remote set, every mirror entry has the id of the key it is stored
\* under, and listings_synced is the number of mirror entries, after any
\* sequence of successful and failed pushes, full pulls and delta pulls
C38_MirrorInvariant ==
    /\ DOMAIN cached_listings \subseteq synced_listing_ids
    /\ \A l \in DOMAIN cached_listings : cached_listings[l].id = l
    /\ stats.listings_synced = Cardinality(DOMAIN cached_listings)

\* a delta pull has filled the mirror after an operation failed
C38_Witness ==
    /\ lastResponse.kind = "pull"
    /\ ~lastResponse.body.is_full_sync
    /\ DOMAIN cached_listings # {}
    /\ stats.errors >= 1
    /\ stats.listings_synced >= 1

---------------------------------------------------------------------------
(* The credential of an account and the key backup of the ESO directory *)

\* C39: the credential in the header of an engine's session is one configured
\* for, or issued by the registration of, the account the engine was built
\* for: a bootstrap of an account without a credential never adopts the
\* credential backed up for another account of the same ESO directory, it
\* registers the account
C39_OwnCredential ==
    \A e \in 1..engines :
       session_key[e] # NoKey => session_key[e] = KeyOf(owner[e])

\* what does hold: a bootstrap that finds no credential and cannot read the
\* backup registers the account, and a credential that a registration issued
\* is the account's own
C39_RegisteredIsOwn ==
    [][(BuiltStep /\ lastBoot'.outcome = "started" /\ lastBoot'.called)
          => session_key'[engines'] = KeyOf(owner'[engines'])]_vars

=============================================================================
